---- MODULE Spec2Model ----
(***************************************************************************)
(* Log-processor backend: the SQS-fed worker lambda                        *)
(* (src/lambda/worker/lambda_function.py) writing redacted log entries to  *)
(* a DynamoDB table with a conditional put.                                *)
(*                                                                         *)
(* One batch of SQS envelopes sits in the queue; every worker invocation   *)
(* is handed that batch (at-least-once delivery: the batch is delivered    *)
(* more than once, is redelivered after a raise, and may be handled by     *)
(* several invocations at once).  An invocation walks the batch in order;  *)
(* the only shared state is the table, touched by one atomic put_item per  *)
(* record.                                                                 *)
(***************************************************************************)
EXTENDS Integers, Sequences, FiniteSets, TLC

\* ------------------------------------------------------------------ bounds
MaxBatch == 2        \* envelopes per delivered batch
MaxFailures == 1     \* put_item calls that fail before the store recovers

\* the invocations that may run at the same time
Workers == {"w1", "w2"}
\* what datetime.now(UTC).isoformat() returns in each invocation: the
\* invocations read the clock at different times
Times == [w1 |-> "2024-12-03T10:00:01+00:00", w2 |-> "2024-12-03T10:00:02+00:00"]

\* ------------------------------------------------------------- characters
Digits == {"0", "1", "2", "3", "4", "5", "6", "7", "8", "9"}
Lower == {"a", "b", "c", "d", "e", "f", "g", "h", "i", "j", "k", "l", "m",
          "n", "o", "p", "q", "r", "s", "t", "u", "v", "w", "x", "y", "z"}
Upper == {"A", "B", "C", "D", "E", "F", "G", "H", "I", "J", "K", "L", "M",
          "N", "O", "P", "Q", "R", "S", "T", "U", "V", "W", "X", "Y", "Z"}
Letters == Lower \cup Upper
\* \w of the re module (ASCII part)
WordChars == Letters \cup Digits \cup {"_"}
\* [A-Za-z0-9._%+-]
LocalChars == Letters \cup Digits \cup {".", "_", "%", "+", "-"}
\* [A-Za-z0-9.-]
DomainChars == Letters \cup Digits \cup {".", "-"}
\* [A-Z|a-z] : the bar is a member of the class
TldChars == Letters \cup {"|"}

TokRedacted == <<"[", "R", "E", "D", "A", "C", "T", "E", "D", "]">>
TokIp == <<"[", "I", "P", "_", "R", "E", "D", "A", "C", "T", "E", "D", "]">>
TokEmail == <<"[", "E", "M", "A", "I", "L", "_", "R", "E", "D", "A", "C", "T",
              "E", "D", "]">>

\* ------------------------------------------------------- redaction engine
\* A text is a sequence of one-character strings.  Each XxxMatchLen(t, s) is
\* the length of the match the regex engine finds starting at position s
\* (greedy, with backtracking), or 0 when the pattern does not match there.

IsDigitAt(t, i) == i >= 1 /\ i <= Len(t) /\ t[i] \in Digits
IsCharAt(t, i, c) == i >= 1 /\ i <= Len(t) /\ t[i] = c

\* \d{3}-\d{3}-\d{4}
Phone10MatchLen(t, s) ==
    IF /\ \A k \in {0, 1, 2, 4, 5, 6, 8, 9, 10, 11} : IsDigitAt(t, s + k)
       /\ IsCharAt(t, s + 3, "-")
       /\ IsCharAt(t, s + 7, "-")
    THEN 12 ELSE 0

\* \d{3}-\d{4}
Phone7MatchLen(t, s) ==
    IF /\ \A k \in {0, 1, 2, 4, 5, 6, 7} : IsDigitAt(t, s + k)
       /\ IsCharAt(t, s + 3, "-")
    THEN 8 ELSE 0

\* number of consecutive digits from position s on, at most 3 (greedy \d{1,3})
DigitRun(t, s) ==
    IF ~IsDigitAt(t, s) THEN 0
    ELSE IF ~IsDigitAt(t, s + 1) THEN 1
    ELSE IF ~IsDigitAt(t, s + 2) THEN 2
    ELSE 3

\* \d{1,3}\.\d{1,3}\.\d{1,3}\.\d{1,3} : a group that is followed by a dot can
\* give digits back, but the dot is no digit, so the group ends where its
\* digit run ends; the last group keeps up to three digits.
IpMatchLen(t, s) ==
    LET n1 == DigitRun(t, s)
        p2 == s + n1 + 1
        n2 == DigitRun(t, p2)
        p3 == p2 + n2 + 1
        n3 == DigitRun(t, p3)
        p4 == p3 + n3 + 1
        n4 == DigitRun(t, p4)
    IN  IF /\ n1 >= 1 /\ IsCharAt(t, s + n1, ".")
           /\ n2 >= 1 /\ IsCharAt(t, p2 + n2, ".")
           /\ n3 >= 1 /\ IsCharAt(t, p3 + n3, ".")
           /\ n4 >= 1
        THEN n1 + n2 + n3 + n4 + 3 ELSE 0

IsWordAt(t, i) == i >= 1 /\ i <= Len(t) /\ t[i] \in WordChars
\* \b between positions i-1 and i
BoundaryBefore(t, i) == IsWordAt(t, i - 1) # IsWordAt(t, i)

SetMax(S) == CHOOSE x \in S : \A y \in S : y <= x

\* \b[A-Za-z0-9._%+-]+@[A-Za-z0-9.-]+\.[A-Z|a-z]{2,}\b
\* The local part ends at the first character outside its class, which must
\* be the at-sign.  The domain is greedy: the engine keeps the rightmost dot
\* after which a top-level part of two or more class characters ends at a
\* word boundary, and for that dot the longest such top-level part.
EmailMatchLen(t, s) ==
    LET n == Len(t)
        ats == {a \in (s + 1)..n :
                   /\ t[a] = "@"
                   /\ \A j \in s..(a - 1) : t[j] \in LocalChars}
    IN  IF ~BoundaryBefore(t, s) \/ ats = {} THEN 0
        ELSE
          LET a == CHOOSE x \in ats : TRUE
              TldEnds(e) == {z \in (e + 2)..n :
                               /\ \A j \in (e + 1)..z : t[j] \in TldChars
                               /\ BoundaryBefore(t, z + 1)}
              dots == {e \in (a + 2)..n :
                         /\ t[e] = "."
                         /\ \A j \in (a + 1)..(e - 1) : t[j] \in DomainChars
                         /\ TldEnds(e) # {}}
          IN  IF dots = {} THEN 0
              ELSE SetMax(TldEnds(SetMax(dots))) - s + 1

MatchLen(rule, t, s) ==
    CASE rule = "phone10" -> Phone10MatchLen(t, s)
      [] rule = "phone7" -> Phone7MatchLen(t, s)
      [] rule = "ip" -> IpMatchLen(t, s)
      [] rule = "email" -> EmailMatchLen(t, s)

\* re.sub(pattern, token, text): leftmost non-overlapping matches, scanning
\* from position s
RECURSIVE SubFrom(_, _, _, _)
SubFrom(rule, tok, t, s) ==
    IF s > Len(t) THEN <<>>
    ELSE LET m == MatchLen(rule, t, s)
         IN  IF m > 0 THEN tok \o SubFrom(rule, tok, t, s + m)
             ELSE <<t[s]>> \o SubFrom(rule, tok, t, s + 1)

\* (the set {t} has the text worked out once, before the scan reads it)
ReSub(rule, tok, t) == CHOOSE r \in {SubFrom(rule, tok, x, 1) : x \in {t}} : TRUE

\* the 7-digit rule applied before the 10-digit rule
redact_sensitive_data_ShortRuleFirst(text) ==
    ReSub("email", TokEmail,
      ReSub("ip", TokIp,
        ReSub("phone10", TokRedacted,
          ReSub("phone7", TokRedacted, text))))

\* without the 7-digit rule
redact_sensitive_data_NoShortRule(text) ==
    ReSub("email", TokEmail,
      ReSub("ip", TokIp,
        ReSub("phone10", TokRedacted, text)))

redact_sensitive_data(text) ==
    ReSub("email", TokEmail,
      ReSub("ip", TokIp,
        ReSub("phone7", TokRedacted,
          ReSub("phone10", TokRedacted, text))))

\* ------------------------------------------------------- queue messages
\* The body of an SQS envelope, as json.loads sees it: text that is no JSON
\* ("invalid"), JSON that is no object ("array"), or an object with the
\* members named in `has`.  A member's value is a string or, for text, a
\* JSON value of another type (str = FALSE).
RequiredFields == <<"tenant_id", "log_id", "text", "source", "timestamp">>
FieldNames == {RequiredFields[k] : k \in DOMAIN RequiredFields}

Str(chars) == [str |-> TRUE, chars |-> chars]
NotAString == [str |-> FALSE, chars |-> <<>>]

Object(t, l, x) ==
    [json |-> "object", has |-> FieldNames, tenant_id |-> t, log_id |-> l,
     text |-> x, source |-> "json", timestamp |-> "2024-12-03T10:00:00Z"]
Without(b, f) == [b EXCEPT !.has = @ \ {f}]
InvalidJson == [Object("", "", NotAString) EXCEPT !.json = "invalid", !.has = {}]
JsonArray == [Object("", "", NotAString) EXCEPT !.json = "array", !.has = {}]

CleanText == <<"o", "k">>
PiiText == <<"c", " ", "5", "5", "5", "-", "1", "2", "3", "4">>

WellFormedBodies ==
    {Object(t, l, Str(x)) : t \in {"A", "B"}, l \in {"X"}, x \in {CleanText}}
    \cup {Object("A", "X", Str(PiiText)), Object("A", "Y", Str(CleanText))}
MissingFieldBodies ==
    {Without(Object("A", "X", Str(CleanText)), f) : f \in {"timestamp"}}
Bodies ==
    WellFormedBodies \cup MissingFieldBodies
    \cup {InvalidJson, JsonArray, Object("A", "X", NotAString)}

Envelope(b) == [body |-> b]
Batches == UNION {[1..n -> {Envelope(b) : b \in Bodies}] : n \in 1..MaxBatch}

\* The spec's LogRecord: an object with the five members and a string text.
WellFormed(b) == b.json = "object" /\ b.has = FieldNames /\ b.text.str
\* The malformed envelopes of the spec: unparseable, not an object, or a
\* member missing.
Malformed(b) == b.json # "object" \/ b.has # FieldNames

\* ------------------------------------------------------------ the worker
VARIABLES
    records,          \* event['Records'] of the batch in the queue
    table,            \* the DynamoDB table: a set of items
    status,           \* per invocation: idle, running, returned, raised
    idx,              \* per invocation: position of the for loop (1-based)
    processed_count,  \* per invocation
    skipped_count,    \* per invocation
    error_count,      \* per invocation
    out,              \* per invocation: what happened to each envelope so far
    response,         \* per invocation: the value returned
    failures,         \* put_item calls that failed so far
    writes,           \* items the table committed, in commit order
    invoked           \* per invocation: its calls of time.sleep and put_item, in order

workerVars == <<records, table, status, idx, processed_count, skipped_count,
                error_count, out, response, failures, writes, invoked>>

\* The functions of the worker called on their own, and the ingestion
\* handler, have their own state; each specification below moves one part
\* of the state and leaves the others as they start.
VARIABLES
    call,             \* a function called on its own: its name and its argument
    result,           \* what that call returned
    event,            \* the API Gateway event the ingestion handler is given
    message,          \* the normalized message the handler has built
    queue,            \* the messages sent to the SQS queue, in order
    sent,             \* how sqs.send_message ended, "none" before the call
    http              \* the response the ingestion handler returned

engineVars == <<call, result>>
ingestVars == <<event, message, queue, sent, http>>

vars == <<workerVars, engineVars, ingestVars>>

NoCall == [fn |-> "none"]
NoResult == [returned |-> FALSE]
EngineIdle == call = NoCall /\ result = NoResult

NoEvent == [kind |-> "none"]
NoMessage == [built |-> FALSE]
NoHttp == [statusCode |-> 0]
IngestIdle ==
    /\ event = NoEvent /\ message = NoMessage /\ queue = <<>> /\ sent = "none"
    /\ http = NoHttp

\* a key that forgets the tenant
KeyOf_NoTenant(m) == [PK |-> "TENANT#", SK |-> "LOG#" \o m.log_id]

\* lines 36-37: the composite key
KeyOf(m) == [PK |-> "TENANT#" \o m.tenant_id, SK |-> "LOG#" \o m.log_id]

\* ------------------------------------------------- binary floating point
\* A float is significand * 2^exponent.  Significands and the products that
\* lead to them are natural numbers in limbs of 14 bits, the least
\* significant limb first, with no zero limb at the top.
Radix == 2^14

\* the literal 0.05 as a double: 7205759403792794 * 2^-57 (0x1.999999999999ap-5)
Literal005 == [significand |-> <<6554, 9830, 6553, 1638>>, exponent |-> 0 - 57]
FloatZero == [significand |-> <<>>, exponent |-> 0]

\* X * c from limb i on, c a small natural number
RECURSIVE MulLimbs(_, _, _, _)
MulLimbs(X, c, i, carry) ==
    IF i > Len(X)
    THEN IF carry = 0 THEN <<>>
         ELSE <<carry % Radix>> \o MulLimbs(X, c, i, carry \div Radix)
    ELSE LET v == X[i] * c + carry
         IN  <<v % Radix>> \o MulLimbs(X, c, i + 1, v \div Radix)
MulSmall(X, c) == MulLimbs(X, c, 1, 0)

BitLength(X) ==
    14 * (Len(X) - 1)
      + (CHOOSE b \in 1..14 : 2^(b - 1) <= X[Len(X)] /\ X[Len(X)] < 2^b)

RECURSIVE LimbsValue(_)
LimbsValue(X) == IF X = <<>> THEN 0 ELSE X[1] + Radix * LimbsValue(Tail(X))

RECURSIVE Increment(_)
Increment(X) ==
    IF X = <<>> THEN <<1>>
    ELSE IF X[1] + 1 < Radix THEN <<X[1] + 1>> \o Tail(X)
    ELSE <<0>> \o Increment(Tail(X))

\* X without the zero limbs at its top
RECURSIVE Trim(_)
Trim(X) ==
    IF X # <<>> /\ X[Len(X)] = 0 THEN Trim(SubSeq(X, 1, Len(X) - 1)) ELSE X

\* X / 2^T rounded to the nearest integer, a tie to the even one: the
\* rounding of IEEE 754 arithmetic and of round().  (An operand is bound to
\* its value through a one-element set, here and below, so that it is
\* computed once.)
ShiftRound(X0, T) ==
    CHOOSE r \in {(
    LET j == T \div 14
        b == T % 14
        Y == SubSeq(X, j + 1, Len(X))
        Limb(i) == IF i <= Len(Y) THEN Y[i] ELSE 0
        q == Trim([i \in 1..Len(Y) |->
                     (Limb(i) \div 2^b) + (Limb(i + 1) % 2^b) * 2^(14 - b)])
        \* the part cut off, as <<its leading bits, whether the rest is zero>>,
        \* to compare with a half
        lead == IF b >= 1 THEN Limb(1) % 2^b
                ELSE IF j >= 1 /\ j <= Len(X) THEN X[j] ELSE 0
        half == IF b >= 1 THEN 2^(b - 1) ELSE 2^13
        restlen == IF b >= 1 THEN j ELSE j - 1
        restzero == \A i \in 1..restlen : i > Len(X) \/ X[i] = 0
        up == \/ lead > half
              \/ lead = half /\ ~restzero
              \/ lead = half /\ restzero /\ T > 0 /\ Len(q) >= 1 /\ q[1] % 2 = 1
    IN  IF T > 0 /\ up THEN Increment(q) ELSE q) : X \in {X0}} : TRUE

\* line 40: len(text) * 0.05, the exact product rounded to 53 bits
FloatTimes005(n) ==
    IF n = 0 THEN FloatZero
    ELSE CHOOSE f \in {[significand |-> ShiftRound(p, BitLength(p) - 53),
                         exponent |-> Literal005.exponent + BitLength(p) - 53] :
                           p \in {MulSmall(Literal005.significand, n)}} : TRUE

\* X / 2^T with the fraction cut off
ShiftFloor(X, T) ==
    LET j == T \div 14
        b == T % 14
        Y == SubSeq(X, j + 1, Len(X))
        Limb(i) == IF i <= Len(Y) THEN Y[i] ELSE 0
    IN  Trim([i \in 1..Len(Y) |->
                 (Limb(i) \div 2^b) + (Limb(i + 1) % 2^b) * 2^(14 - b)])
\* the hundredths cut off instead of rounded: int(x * 100) / 100
RoundHundredths_Truncate(x) ==
    LimbsValue(ShiftFloor(MulSmall(x.significand, 100), 0 - x.exponent))

\* line 61: Decimal(str(round(x, 2))), in hundredths.  round() rounds the
\* exact value of the float to two places, str() prints the shortest
\* decimal that reads back as that float, which is the two-place decimal.
RoundHundredths(x) ==
    CHOOSE h \in {LimbsValue(ShiftRound(MulSmall(v.significand, 100), 0 - v.exponent)) :
                     v \in {x}} : TRUE

\* what the claims expect: 0.05 s a character, in hundredths
HundredthsPerChar == 5

\* lines 40, 61: the stored processing_time_sec, in hundredths of a second
ProcessingTime(text) == RoundHundredths(FloatTimes005(Len(text.chars)))

\* the text stored without the redaction
BuildItem_Unredacted(m, now) ==
    [PK |-> KeyOf(m).PK,
     SK |-> KeyOf(m).SK,
     tenant_id |-> m.tenant_id,
     log_id |-> m.log_id,
     source |-> m.source,
     original_text |-> m.text.chars,
     modified_data |-> m.text.chars,
     ingested_at |-> m.timestamp,
     processed_at |-> now,
     text_length |-> Len(m.text.chars),
     processing_time_sec |-> ProcessingTime(m.text)]

\* lines 50-62: the item handed to put_item at time now
BuildItem(m, now) ==
    [PK |-> KeyOf(m).PK,
     SK |-> KeyOf(m).SK,
     tenant_id |-> m.tenant_id,
     log_id |-> m.log_id,
     source |-> m.source,
     original_text |-> m.text.chars,
     modified_data |-> redact_sensitive_data(m.text.chars),
     ingested_at |-> m.timestamp,
     processed_at |-> now,
     text_length |-> Len(m.text.chars),
     processing_time_sec |-> ProcessingTime(m.text)]

EntriesAt(tbl, key) == {i \in tbl : i.PK = key.PK /\ i.SK = key.SK}

\* no ConditionExpression at all
ConditionHolds_Unconditional(tbl, item) == TRUE
\* a condition on the partition alone
ConditionHolds_PartitionOnly(tbl, item) == {i \in tbl : i.PK = item.PK} = {}
\* a condition that takes only an item with the same text for a duplicate
ConditionHolds_SameText(tbl, item) ==
    \A i \in {x \in tbl : x.PK = item.PK /\ x.SK = item.SK} :
        i.original_text # item.original_text

\* line 64: attribute_not_exists(PK) AND attribute_not_exists(SK), evaluated
\* on the item stored under the new item's primary key, if any; every stored
\* item has both attributes.
ConditionHolds(tbl, item) == EntriesAt(tbl, item) = {}

\* put_item: replaces the item under the same primary key
PutItem(tbl, item) == (tbl \ EntriesAt(tbl, item)) \cup {item}

\* lines 28-40: the exception raised before the write, "none" if none.
\* json.loads, then the five subscripts in order (a non-dict raises
\* TypeError on the first), then len(text).
ExceptionBeforeWrite(b) ==
    IF b.json = "invalid" THEN "JSONDecodeError"
    ELSE IF b.json # "object" THEN "TypeError"
    ELSE IF \E k \in DOMAIN RequiredFields : RequiredFields[k] \notin b.has
         THEN "KeyError"
    ELSE IF ~b.text.str THEN "TypeError"
    ELSE "none"

\* What a failing put_item raises: a ClientError with an error code, or an
\* exception that is no ClientError (botocore's connection errors).
ConditionalCheckFailed == "ConditionalCheckFailedException"
StoreFailures ==
    {[exc |-> "ClientError", code |-> "ProvisionedThroughputExceededException"],
     [exc |-> "EndpointConnectionError", code |-> ""]}

\* every ClientError taken for a duplicate
IsDuplicateSignal_AnyCode(code) == TRUE

\* line 71
IsDuplicateSignal(code) == code = ConditionalCheckFailed

\* storage errors counted and skipped like malformed messages
AbsorbedByOuterTry_StorageErrors(exc) ==
    exc \in {"JSONDecodeError", "KeyError", "ClientError", "EndpointConnectionError"}
\* a TypeError counted and skipped like a malformed message
AbsorbedByOuterTry_TypeError(exc) ==
    exc \in {"JSONDecodeError", "KeyError", "TypeError"}

\* lines 82-97: the except clauses of the outer try
AbsorbedByOuterTry(exc) == exc \in {"JSONDecodeError", "KeyError"}

\* What the handler did with one envelope: the exception its handling raised
\* ("none" if none) with the ClientError code, and whether put_item was
\* called for it.
Outcome(exc, code, put) == [exc |-> exc, code |-> code, put |-> put]

NoResponse ==
    [statusCode |-> 0,
     body |-> [processed |-> 0, skipped_duplicates |-> 0, errors |-> 0, total |-> 0]]

Init ==
    /\ records \in Batches
    /\ table = {}
    /\ status = [w \in Workers |-> "idle"]
    /\ idx = [w \in Workers |-> 1]
    /\ processed_count = [w \in Workers |-> 0]
    /\ skipped_count = [w \in Workers |-> 0]
    /\ error_count = [w \in Workers |-> 0]
    /\ out = [w \in Workers |-> <<>>]
    /\ response = [w \in Workers |-> NoResponse]
    /\ failures = 0
    /\ writes = <<>>
    /\ invoked = [w \in Workers |-> <<>>]
    /\ EngineIdle
    /\ IngestIdle

\* lines 15-26: an invocation starts with its counters at zero
Start(w) ==
    /\ status' = [status EXCEPT ![w] = "running"]
    /\ idx' = [idx EXCEPT ![w] = 1]
    /\ processed_count' = [processed_count EXCEPT ![w] = 0]
    /\ skipped_count' = [skipped_count EXCEPT ![w] = 0]
    /\ error_count' = [error_count EXCEPT ![w] = 0]
    /\ out' = [out EXCEPT ![w] = <<>>]
    /\ response' = [response EXCEPT ![w] = NoResponse]
    /\ invoked' = [invoked EXCEPT ![w] = <<>>]
    /\ UNCHANGED <<records, table, failures, writes, engineVars, ingestVars>>

\* The queue hands the batch to an invocation.  Delivery is at least once:
\* every invocation gets the same batch, at any time.
Deliver(w) ==
    /\ status[w] = "idle"
    /\ Start(w)

\* lines 80, 97: the invocation raised, so the queue delivers the batch again
Redeliver(w) ==
    /\ status[w] = "raised"
    /\ Start(w)

\* a loop that leaves out the envelope after the one it handled
Step_SkipNext(w, outcome, dp, ds, de, raises) ==
    /\ out' = [out EXCEPT ![w] = Append(@, outcome)]
    /\ processed_count' = [processed_count EXCEPT ![w] = @ + dp]
    /\ skipped_count' = [skipped_count EXCEPT ![w] = @ + ds]
    /\ error_count' = [error_count EXCEPT ![w] = @ + de]
    /\ status' = [status EXCEPT ![w] = IF raises THEN "raised" ELSE @]
    /\ idx' = [idx EXCEPT ![w] = IF raises THEN @ ELSE @ + 2]
    /\ UNCHANGED <<records, response, engineVars, ingestVars>>

\* The envelope is done: count it and go on with the next one (continue, or
\* the end of the loop body), or leave the invocation with the exception.
Step(w, outcome, dp, ds, de, raises) ==
    /\ out' = [out EXCEPT ![w] = Append(@, outcome)]
    /\ processed_count' = [processed_count EXCEPT ![w] = @ + dp]
    /\ skipped_count' = [skipped_count EXCEPT ![w] = @ + ds]
    /\ error_count' = [error_count EXCEPT ![w] = @ + de]
    /\ status' = [status EXCEPT ![w] = IF raises THEN "raised" ELSE @]
    /\ idx' = [idx EXCEPT ![w] = IF raises THEN @ ELSE @ + 1]
    /\ UNCHANGED <<records, response, engineVars, ingestVars>>

\* the outer handlers skip the envelope without counting it
OuterExcept_NotCounted(w, outcome, counted) ==
    Step(w, outcome, 0, 0, counted, ~AbsorbedByOuterTry(outcome.exc))

\* lines 82-97: an exception reaches the except clauses of the outer try.
\* `counted` is what the inner handler already added to error_count.
OuterExcept(w, outcome, counted) ==
    Step(w, outcome, 0, 0, counted + 1, ~AbsorbedByOuterTry(outcome.exc))

\* a rejected write counted as processed
WriteRaised_DuplicateAsProcessed(w, e) ==
    LET outcome == Outcome(e.exc, e.code, TRUE)
    IN  IF e.exc = "ClientError"
        THEN IF IsDuplicateSignal(e.code)
             THEN Step(w, outcome, 1, 0, 0, FALSE)
             ELSE OuterExcept(w, outcome, 1)
        ELSE OuterExcept(w, outcome, 0)

\* lines 70-80: put_item raised e
WriteRaised(w, e) ==
    LET outcome == Outcome(e.exc, e.code, TRUE)
    IN  IF e.exc = "ClientError"
        THEN IF IsDuplicateSignal(e.code)
             THEN Step(w, outcome, 0, 1, 0, FALSE)
             ELSE OuterExcept(w, outcome, 1)
        ELSE OuterExcept(w, outcome, 0)

\* a delay that does not depend on the text
SleepCall_FixedDelay(i, b) ==
    [fn |-> "sleep", envelope |-> i, arg |-> FloatTimes005(1)]

\* line 42: time.sleep(processing_time), and lines 49-65: table.put_item,
\* as invocation w calls them for envelope i
SleepCall(i, b) ==
    [fn |-> "sleep", envelope |-> i, arg |-> FloatTimes005(Len(b.text.chars))]
PutItemCall(i, b) == [fn |-> "put_item", envelope |-> i, arg |-> KeyOf(b)]

\* lines 26-97: one iteration of the for loop
ProcessRecord(w) ==
    /\ status[w] = "running"
    /\ idx[w] <= Len(records)
    /\ LET b == records[idx[w]].body
           pre == ExceptionBeforeWrite(b)
       IN  \/ /\ pre # "none"
              /\ OuterExcept(w, Outcome(pre, "", FALSE), 0)
              /\ UNCHANGED <<table, failures, writes, invoked>>
           \/ /\ pre = "none"
              /\ invoked' = [invoked EXCEPT ![w] =
                              @ \o <<SleepCall(idx[w], b), PutItemCall(idx[w], b)>>]
              /\ \/ \E item \in {BuildItem(b, Times[w])} :
                      \/ /\ ConditionHolds(table, item)
                         /\ table' = PutItem(table, item)
                         /\ writes' = Append(writes, item)
                         /\ Step(w, Outcome("none", "", TRUE), 1, 0, 0, FALSE)
                         /\ UNCHANGED failures
                      \/ /\ ~ConditionHolds(table, item)
                         /\ WriteRaised(w, [exc |-> "ClientError",
                                            code |-> ConditionalCheckFailed])
                         /\ UNCHANGED <<table, failures, writes>>
                 \/ /\ failures < MaxFailures
                    /\ failures' = failures + 1
                    /\ \E e \in StoreFailures : WriteRaised(w, e)
                    /\ UNCHANGED <<table, writes>>

\* a total that counts the stored records only
Return_TotalStored(w) ==
    /\ status[w] = "running"
    /\ idx[w] > Len(records)
    /\ response' = [response EXCEPT ![w] =
         [statusCode |-> 200,
          body |-> [processed |-> processed_count[w],
                    skipped_duplicates |-> skipped_count[w],
                    errors |-> error_count[w],
                    total |-> processed_count[w]]]]
    /\ status' = [status EXCEPT ![w] = "returned"]
    /\ UNCHANGED <<records, table, idx, processed_count, skipped_count,
                   error_count, out, failures, writes, invoked, engineVars,
                   ingestVars>>

\* lines 99-111: the loop is over
Return(w) ==
    /\ status[w] = "running"
    /\ idx[w] > Len(records)
    /\ response' = [response EXCEPT ![w] =
         [statusCode |-> 200,
          body |-> [processed |-> processed_count[w],
                    skipped_duplicates |-> skipped_count[w],
                    errors |-> error_count[w],
                    total |-> Len(records)]]]
    /\ status' = [status EXCEPT ![w] = "returned"]
    /\ UNCHANGED <<records, table, idx, processed_count, skipped_count,
                   error_count, out, failures, writes, invoked, engineVars,
                   ingestVars>>

Next ==
    \E w \in Workers :
        \/ Deliver(w)
        \/ Redeliver(w)
        \/ ProcessRecord(w)
        \/ Return(w)

Spec == Init /\ [][Next]_vars

\* The queue redelivers a batch whose invocation raised, and a running
\* invocation runs on.
FairSpec ==
    /\ Spec
    /\ \A w \in Workers :
         /\ WF_vars(Redeliver(w))
         /\ WF_vars(ProcessRecord(w))
         /\ WF_vars(Return(w))

\* ------------------------------------------- the functions on their own
MaxPieces == 2       \* pieces a text handed to the redaction is made of

\* the texts: every concatenation of at most MaxPieces of these pieces
Pieces ==
    {<<"C", "o", "n", "t", "a", "c", "t", ":", " ">>,
     <<"O", "r", "d", "e", "r", " ", "I", "D", ":", " ">>,
     <<"1", "2", "3", "-", "4", "5", "6", "-", "7", "8", "9", "0">>,
     <<"-", "1", "2", "3", "-", "4", "5", "6", "7">>,
     <<"5", "5", "5", "-", "1", "2", "3", "4">>,
     <<"5", "5", "5", "-", "1", "2">>,
     <<"8", "8", "8", "-", "9", "9">>,
     <<"1", "9", "2", ".", "1", "6", "8", ".", "1", ".", "1">>,
     <<"a", "@", "b", ".", "c", "o">>,
     <<"u", "@", "h", ".", "c", "|", "m">>,
     <<"a", "@", "b", "_", "c", ".", "c", "o">>,
     <<"1">>,
     <<"-">>,
     <<".">>,
     <<" ">>,
     <<"x">>}
RECURSIVE TextsOf(_)
TextsOf(n) ==
    IF n = 0 THEN {<<>>}
    ELSE TextsOf(n - 1) \cup {t \o q : t \in TextsOf(n - 1), q \in Pieces}
Texts == TextsOf(MaxPieces)

\* line 12 of the ingestion handler: the longest text it lets through
MAX_CHAR_LIMIT == 17000

CallInit ==
    /\ call \in {[fn |-> "redact_sensitive_data", text |-> t] : t \in Texts}
               \cup {[fn |-> "metrics", text_length |-> n] : n \in 0..MAX_CHAR_LIMIT}
    /\ result = NoResult
    /\ records = <<>>
    /\ table = {}
    /\ status = [w \in Workers |-> "idle"]
    /\ idx = [w \in Workers |-> 1]
    /\ processed_count = [w \in Workers |-> 0]
    /\ skipped_count = [w \in Workers |-> 0]
    /\ error_count = [w \in Workers |-> 0]
    /\ out = [w \in Workers |-> <<>>]
    /\ response = [w \in Workers |-> NoResponse]
    /\ failures = 0
    /\ writes = <<>>
    /\ invoked = [w \in Workers |-> <<>>]
    /\ IngestIdle

\* lines 114-132: redact_sensitive_data(text)
Redact ==
    /\ call.fn = "redact_sensitive_data"
    /\ result = NoResult
    /\ result' = [returned |-> TRUE, text |-> redact_sensitive_data(call.text)]
    /\ UNCHANGED <<call, workerVars, ingestVars>>

\* lines 40, 60-61: what the worker stores about a text of the given length
Measure ==
    /\ call.fn = "metrics"
    /\ result = NoResult
    /\ result' = [returned |-> TRUE,
                  text_length |-> call.text_length,
                  processing_time_sec |->
                      RoundHundredths(FloatTimes005(call.text_length))]
    /\ UNCHANGED <<call, workerVars, ingestVars>>

CallNext == Redact \/ Measure

CallSpec == CallInit /\ [][CallNext]_vars

\* ------------------------------------------------- the ingestion handler
\* src/lambda/ingestion/lambda_function.py.  A behaviour handles one API
\* Gateway event: Handle parses and validates it, and either answers or
\* builds the message, which one of the Send actions hands to the queue.

\* lines 12-14
MAX_TENANT_ID_LENGTH == 100
MAX_LOG_ID_LENGTH == 100

\* Python values that are no strings, by their repr
PyValue(repr) == [str |-> FALSE, chars |-> <<>>, py |-> repr]
PyNone == PyValue("None")
\* bool(v)
Truthy(v) == IF v.str THEN v.chars # <<>> ELSE v.py \in {"5", "True", "[1]"}

Repeat(c, n) == [i \in 1..n |-> c]

\* str(uuid.uuid4()) and datetime.now(UTC).isoformat()
Uuid4 == Str(<<"3", "f", "2", "b", "8", "c", "1", "e", "-", "7", "a", "4", "d", "-", "4", "e", "0", "b", "-", "9", "c", "5", "5", "-", "1", "d", "2", "e", "3", "f", "4", "a", "5", "b", "6", "c">>)
IsoNow == "2024-12-03T10:00:00+00:00"

\* line 15: [a-zA-Z0-9_-]
TenantChars == Letters \cup Digits \cup {"_", "-"}
\* lines 15, 129: TENANT_ID_PATTERN.match(tenant_id) with ^[a-zA-Z0-9_-]+$ ;
\* the dollar matches at the end and before a newline that ends the string
PatternMatch(chars) ==
    \E k \in 1..Len(chars) :
        /\ \A j \in 1..k : chars[j] \in TenantChars
        /\ k = Len(chars) \/ (k = Len(chars) - 1 /\ chars[Len(chars)] = "\n")

\* needle in text
Contains(text, needle) ==
    \E k \in 0..(Len(text) - Len(needle)) :
        SubSeq(text, k + 1, k + Len(needle)) = needle
AppJson == <<"a", "p", "p", "l", "i", "c", "a", "t", "i", "o", "n", "/", "j", "s", "o", "n">>
TextPlain == <<"t", "e", "x", "t", "/", "p", "l", "a", "i", "n">>

\* str.lower() of the header names
LowerName(name) ==
    CASE name \in {"Content-Type", "content-type", "CONTENT-TYPE"} -> "content-type"
      [] name \in {"X-Tenant-Id", "x-tenant-id", "X-TENANT-ID"} -> "x-tenant-id"
      [] OTHER -> name
\* lines 25-26, 57: headers_lower.get(key, default); headers is a set of
\* <<name, value>> with one value to a lowered name
HeaderGet(headers, key, default) ==
    IF \E h \in headers : LowerName(h[1]) = key
    THEN (CHOOSE h \in headers : LowerName(h[1]) = key)[2]
    ELSE default

JsonHeaders == {<<"Content-Type", "application/json">>}
CorsHeaders == JsonHeaders \cup {<<"Access-Control-Allow-Origin", "*">>}
Reply(code, headers, body) == [statusCode |-> code, headers |-> headers, body |-> body]
BadRequest(error) == Reply(400, JsonHeaders, [error |-> error])
ValidationFailed(detail) ==
    Reply(400, JsonHeaders, [error |-> "Validation failed", detail |-> detail])
Fields(t, l, x, src) ==
    [reply |-> FALSE, tenant_id |-> t, log_id |-> l, text |-> x, source |-> src]
Answer(r) == [reply |-> TRUE, http |-> r]

\* no limit on the length of the text
Validate_NoTextLimit(f) ==
    IF ~Truthy(f.tenant_id) \/ ~Truthy(f.text)
    THEN BadRequest("Missing tenant_id or text")
    ELSE IF ~f.tenant_id.str THEN ValidationFailed("tenant_id must be a string")
    ELSE IF ~f.text.str THEN ValidationFailed("text must be a string")
    ELSE IF Truthy(f.log_id) /\ ~f.log_id.str
    THEN ValidationFailed("log_id must be a string")
    ELSE IF Truthy(f.log_id) /\ Len(f.log_id.chars) > MAX_LOG_ID_LENGTH
    THEN ValidationFailed("log_id must not exceed 100 characters (got "
                            \o ToString(Len(f.log_id.chars)) \o ")")
    ELSE IF Len(f.tenant_id.chars) > MAX_TENANT_ID_LENGTH
    THEN ValidationFailed("tenant_id exceeds 100 characters")
    ELSE IF ~PatternMatch(f.tenant_id.chars)
    THEN ValidationFailed(
           "tenant_id can only contain letters, numbers, hyphens, and underscores")
    ELSE NoHttp

\* the text may be a value of any JSON type
Validate_TextAnyType(f) ==
    IF ~Truthy(f.tenant_id) \/ ~Truthy(f.text)
    THEN BadRequest("Missing tenant_id or text")
    ELSE IF ~f.tenant_id.str THEN ValidationFailed("tenant_id must be a string")
    ELSE IF Truthy(f.log_id) /\ ~f.log_id.str
    THEN ValidationFailed("log_id must be a string")
    ELSE IF Truthy(f.log_id) /\ Len(f.log_id.chars) > MAX_LOG_ID_LENGTH
    THEN ValidationFailed("log_id must not exceed 100 characters (got "
                            \o ToString(Len(f.log_id.chars)) \o ")")
    ELSE IF Len(f.tenant_id.chars) > MAX_TENANT_ID_LENGTH
    THEN ValidationFailed("tenant_id exceeds 100 characters")
    ELSE IF ~PatternMatch(f.tenant_id.chars)
    THEN ValidationFailed(
           "tenant_id can only contain letters, numbers, hyphens, and underscores")
    ELSE IF Len(f.text.chars) > MAX_CHAR_LIMIT
    THEN Reply(413, CorsHeaders,
               [error |-> "Payload text exceeds maximum allowed characters (17000)"])
    ELSE NoHttp

\* lines 69-146: the response that rejects the fields, NoHttp if none does
Validate(f) ==
    IF ~Truthy(f.tenant_id) \/ ~Truthy(f.text)
    THEN BadRequest("Missing tenant_id or text")
    ELSE IF ~f.tenant_id.str THEN ValidationFailed("tenant_id must be a string")
    ELSE IF ~f.text.str THEN ValidationFailed("text must be a string")
    ELSE IF Truthy(f.log_id) /\ ~f.log_id.str
    THEN ValidationFailed("log_id must be a string")
    ELSE IF Truthy(f.log_id) /\ Len(f.log_id.chars) > MAX_LOG_ID_LENGTH
    THEN ValidationFailed("log_id must not exceed 100 characters (got "
                            \o ToString(Len(f.log_id.chars)) \o ")")
    ELSE IF Len(f.tenant_id.chars) > MAX_TENANT_ID_LENGTH
    THEN ValidationFailed("tenant_id exceeds 100 characters")
    ELSE IF ~PatternMatch(f.tenant_id.chars)
    THEN ValidationFailed(
           "tenant_id can only contain letters, numbers, hyphens, and underscores")
    ELSE IF Len(f.text.chars) > MAX_CHAR_LIMIT
    THEN Reply(413, CorsHeaders,
               [error |-> "Payload text exceeds maximum allowed characters (17000)"])
    ELSE NoHttp

\* lines 194-200
InternalError == Reply(500, JsonHeaders, [error |-> "Internal server error"])

\* The body of an event: no body member, None, or a string.  A string is its
\* characters, for the plain-text path, or what json.loads makes of it.
BodyAbsent == [kind |-> "absent"]
BodyNone == [kind |-> "None"]
TextBody(chars) == [kind |-> "str", json |-> "invalid", chars |-> chars]
JsonArrayBody == [kind |-> "str", json |-> "array"]
JsonObjectBody(has, t, l, x) ==
    [kind |-> "str", json |-> "object", has |-> has,
     tenant_id |-> t, log_id |-> l, text |-> x]
\* data.get(member), data.get(member, default)
Member(body, name, default) ==
    IF name \in body.has
    THEN CASE name = "tenant_id" -> body.tenant_id
           [] name = "log_id" -> body.log_id
           [] name = "text" -> body.text
    ELSE default

\* lines 24-67: the fields taken from the event, or the response that ends
\* the handling (None.items(), `in` on a content type that is no string and
\* json.loads(None) raise into line 194)
Parse(e) ==
    IF e.headers.kind = "None" THEN Answer(InternalError)
    ELSE
      LET headers == IF e.headers.kind = "absent" THEN {} ELSE e.headers.items
          content_type == HeaderGet(headers, "content-type", Str(<<>>)).chars
          body == IF e.body.kind = "absent" THEN TextBody(<<>>) ELSE e.body
      IN  IF ~HeaderGet(headers, "content-type", Str(<<>>)).str
          THEN Answer(InternalError)
          ELSE IF Contains(content_type, AppJson)
          THEN IF body.kind = "None" THEN Answer(InternalError)
               ELSE IF body.json = "invalid" THEN Answer(BadRequest("Invalid JSON"))
               ELSE IF body.json # "object"
               THEN Answer(Reply(400, JsonHeaders,
                                 [error |-> "Invalid JSON structure",
                                  detail |-> "Expected JSON object, not array"]))
               ELSE Fields(Member(body, "tenant_id", PyNone),
                           Member(body, "log_id", Uuid4),
                           Member(body, "text", PyNone), "json")
          ELSE IF Contains(content_type, TextPlain)
          THEN Fields(HeaderGet(headers, "x-tenant-id", PyNone), Uuid4,
                      IF body.kind = "None" THEN PyNone ELSE Str(body.chars),
                      "text")
          ELSE Answer(BadRequest("Unsupported Content-Type"))

\* lines 149-155
Message(f) ==
    [tenant_id |-> f.tenant_id, log_id |-> f.log_id, text |-> f.text,
     source |-> f.source, timestamp |-> IsoNow]

\* ---- the events
Absent == [absent |-> TRUE]
TenantValues ==
    {PyNone, PyValue("5"), Str(<<>>), Str(<<"a", "c", "m", "e">>), Str(<<"A", "_", "b", "-", "9">>), Str(<<"a", "c", " ", "m", "e">>),
     Str(<<"a", "c", "!", "e">>), Str(<<"a", "c", "m", "e">> \o <<"\n">>), Str(<<"\n">>),
     Str(Repeat("a", MAX_TENANT_ID_LENGTH)),
     Str(Repeat("a", MAX_TENANT_ID_LENGTH + 1))}
LogIdValues ==
    {PyNone, PyValue("0"), PyValue("False"), PyValue("[]"), PyValue("5"),
     Str(<<>>), Str(<<"X">>),
     Str(Repeat("x", MAX_LOG_ID_LENGTH)), Str(Repeat("x", MAX_LOG_ID_LENGTH + 1))}
TextValues ==
    {PyNone, PyValue("5"), Str(<<>>), Str(CleanText),
     Str(Repeat("x", MAX_CHAR_LIMIT)), Str(Repeat("x", MAX_CHAR_LIMIT + 1))}
OrNone(v) == IF v = Absent THEN PyNone ELSE v
JsonObjects ==
    {JsonObjectBody({k \in {"tenant_id", "log_id", "text"} :
                        \/ k = "tenant_id" /\ t # Absent
                        \/ k = "log_id" /\ l # Absent
                        \/ k = "text" /\ x # Absent},
                    OrNone(t), OrNone(l), OrNone(x)) :
        t \in TenantValues \cup {Absent},
        l \in LogIdValues \cup {Absent},
        x \in TextValues \cup {Absent}}
Dict(items) == [kind |-> "dict", items |-> items]
Event(headers, body) == [kind |-> "event", headers |-> headers, body |-> body]
JsonEvents ==
    {Event(Dict({<<"Content-Type", Str(AppJson)>>}), b) :
        b \in JsonObjects \cup {JsonArrayBody, TextBody(CleanText), BodyNone, BodyAbsent}}
    \cup {Event(Dict({<<"content-type", Str(AppJson \o <<";", " ", "c", "h", "a", "r", "s", "e", "t", "=", "u", "t", "f", "-", "8">>)>>}),
                JsonObjectBody({"tenant_id", "text"}, Str(<<"a", "c", "m", "e">>), PyNone, Str(CleanText)))}
    \* other media types whose name holds application/json or text/plain
    \cup {Event(Dict({<<"Content-Type", Str(AppJson \o <<"l">>)>>}), b) :
            b \in {JsonObjectBody({"tenant_id", "text"}, Str(<<"a", "c", "m", "e">>), PyNone, Str(CleanText)),
                   TextBody(CleanText)}}
    \cup {Event(Dict({<<"Content-Type", Str(TextPlain \o t)>>,
                      <<"X-Tenant-Id", Str(<<"a", "c", "m", "e">>)>>}),
                TextBody(CleanText)) :
            t \in {<<"t", "e", "x", "t">>,
                   <<";", " ", "c", "h", "a", "r", "s", "e", "t", "=", "u", "t", "f", "-", "8">>}}
TextEvents ==
    {Event(Dict({<<c, Str(TextPlain)>>} \cup h), b) :
        c \in {"Content-Type", "content-type"},
        h \in {{}} \cup {{<<n, Str(v)>>} :
                            n \in {"X-Tenant-Id", "x-tenant-id", "X-TENANT-ID"},
                            v \in {<<"a", "c", "m", "e">>, <<"a", "c", " ", "m", "e">>, <<>>}},
        b \in {TextBody(CleanText), TextBody(<<>>),
               TextBody(Repeat("x", MAX_CHAR_LIMIT + 1)), BodyNone, BodyAbsent}}
OtherEvents ==
    {Event(h, b) :
        h \in {[kind |-> "None"], [kind |-> "absent"], Dict({}),
               Dict({<<"Content-Type", PyNone>>}),
               Dict({<<"Content-Type", Str(<<"t", "e", "x", "t", "/", "h", "t", "m", "l">>)>>})},
        b \in {TextBody(CleanText), BodyAbsent}}
Events == JsonEvents \cup TextEvents \cup OtherEvents

IngestInit ==
    /\ event \in Events
    /\ message = NoMessage
    /\ queue = <<>>
    /\ sent = "none"
    /\ http = NoHttp
    /\ records = <<>>
    /\ table = {}
    /\ status = [w \in Workers |-> "idle"]
    /\ idx = [w \in Workers |-> 1]
    /\ processed_count = [w \in Workers |-> 0]
    /\ skipped_count = [w \in Workers |-> 0]
    /\ error_count = [w \in Workers |-> 0]
    /\ out = [w \in Workers |-> <<>>]
    /\ response = [w \in Workers |-> NoResponse]
    /\ failures = 0
    /\ writes = <<>>
    /\ invoked = [w \in Workers |-> <<>>]
    /\ EngineIdle

\* lines 23-155: parse the event and validate the fields; answer, or build
\* the message
Handle ==
    /\ http = NoHttp
    /\ message = NoMessage
    /\ LET p == Parse(event)
       IN  IF p.reply
           THEN http' = p.http /\ UNCHANGED message
           ELSE IF Validate(p) # NoHttp
           THEN http' = Validate(p) /\ UNCHANGED message
           ELSE /\ message' = [built |-> TRUE, msg |-> Message(p)]
                /\ UNCHANGED http
    /\ UNCHANGED <<event, queue, sent, workerVars, engineVars>>

\* lines 158-184: send_message returns
SendOk ==
    /\ http = NoHttp
    /\ message # NoMessage
    /\ queue' = Append(queue,
         [MessageBody |-> message.msg,
          MessageAttributes |->
              [tenant_id |-> [StringValue |-> message.msg.tenant_id.chars,
                              DataType |-> "String"]]])
    /\ http' = Reply(202, CorsHeaders,
                     [message |-> "Accepted",
                      log_id |-> message.msg.log_id,
                      tenant_id |-> message.msg.tenant_id])
    /\ sent' = "returned"
    /\ UNCHANGED <<event, message, workerVars, engineVars>>

\* a failed send answered as accepted
SendClientError_Accepted ==
    /\ http = NoHttp
    /\ message # NoMessage
    /\ http' = Reply(202, CorsHeaders,
                     [message |-> "Accepted",
                      log_id |-> message.msg.log_id,
                      tenant_id |-> message.msg.tenant_id])
    /\ sent' = "ClientError"
    /\ UNCHANGED <<event, message, queue, workerVars, engineVars>>

\* a ClientError of the send answered like any other exception
SendClientError_AsInternalError ==
    /\ http = NoHttp
    /\ message # NoMessage
    /\ http' = InternalError
    /\ sent' = "ClientError"
    /\ UNCHANGED <<event, message, queue, workerVars, engineVars>>

\* lines 186-192: send_message raises ClientError
SendClientError ==
    /\ http = NoHttp
    /\ message # NoMessage
    /\ http' = Reply(503, CorsHeaders,
                     [error |-> "Service Unavailable: Failed to queue message"])
    /\ sent' = "ClientError"
    /\ UNCHANGED <<event, message, queue, workerVars, engineVars>>

\* the exception of the send leaves the handler
SendOtherError_Propagates ==
    /\ http = NoHttp
    /\ message # NoMessage
    /\ http' = [statusCode |-> 0, headers |-> {}, raised |-> "Exception"]
    /\ sent' = "Exception"
    /\ UNCHANGED <<event, message, queue, workerVars, engineVars>>

\* lines 194-200: send_message raises another exception
SendOtherError ==
    /\ http = NoHttp
    /\ message # NoMessage
    /\ http' = InternalError
    /\ sent' = "Exception"
    /\ UNCHANGED <<event, message, queue, workerVars, engineVars>>

IngestNext == Handle \/ SendOk \/ SendClientError \/ SendOtherError

IngestSpec == IngestInit /\ [][IngestNext]_vars

\* ------------------------------------------------------------ vocabulary
\* For the texts of the batches, worked out once: what the redaction makes
\* of a text, the item put_item is given for a body, the argument of
\* time.sleep for a text of n characters and that argument rounded to
\* hundredths of a second.
BatchTexts == {b.text.chars : b \in {x \in Bodies : x.text.str}}
RedactedText == [t \in BatchTexts |-> redact_sensitive_data(t)]
BuiltItem == [b \in WellFormedBodies |-> [w \in Workers |-> BuildItem(b, Times[w])]]
SleepArg == [n \in {Len(t) : t \in BatchTexts} |-> FloatTimes005(n)]
SleepHundredths == [n \in DOMAIN SleepArg |-> RoundHundredths(SleepArg[n])]

Stored(o) == o.put /\ o.exc = "none"
Skipped(o) == o.put /\ o.exc = "ClientError" /\ o.code = ConditionalCheckFailed
StoreFailed(o) == o.put /\ ~Stored(o) /\ ~Skipped(o)

Body(i) == records[i].body
\* the envelopes invocation w has handled so far
Handled(w) == 1..Len(out[w])
\* invocation w left with the exception raised for envelope i
RaisedAt(w, i) == status[w] = "raised" /\ Len(out[w]) = i /\ idx[w] = i

SameKey(x, y) == x.PK = y.PK /\ x.SK = y.SK
CommitsAt(key) == SelectSeq(writes, LAMBDA it : SameKey(it, key))
CountOf(w, P(_)) == Cardinality({i \in Handled(w) : P(out[w][i])})

\* ---------------------------------------------------------------- claims

\* C1 (idempotency).  Whenever a well-formed record has been handled with
\* the store not failing, exactly one write was ever committed under its
\* key, the table holds exactly that item under the key, and within one
\* invocation a later handling of the same record is a duplicate skip; the
\* committed item carries the ids and the text of the record that was
\* stored, and the counters count one processed per store and one skipped
\* per skip.
C1_Idempotent ==
    \A w \in Workers : \A i \in Handled(w) :
        (WellFormed(Body(i)) /\ ~StoreFailed(out[w][i])) =>
            LET key == KeyOf(Body(i))
                commits == CommitsAt(key)
            IN  /\ Len(commits) = 1
                /\ EntriesAt(table, key) = {commits[1]}
                /\ Stored(out[w][i]) =>
                       /\ commits[1].tenant_id = Body(i).tenant_id
                       /\ commits[1].log_id = Body(i).log_id
                       /\ commits[1].original_text = Body(i).text.chars
                /\ \A j \in Handled(w) :
                       (j < i /\ Body(j) = Body(i) /\ ~StoreFailed(out[w][j]))
                           => Skipped(out[w][i])
                /\ processed_count[w] = CountOf(w, Stored)
                /\ skipped_count[w] = CountOf(w, Skipped)

\* C1 witness: one invocation handled the same record twice, stored the
\* first and skipped the second, and a later invocation skipped it again.
C1_Witness ==
    \E w \in Workers, v \in Workers :
        /\ w # v
        /\ Len(out[w]) = 2 /\ Body(1) = Body(2) /\ WellFormed(Body(1))
        /\ Stored(out[w][1]) /\ Skipped(out[w][2])
        /\ status[w] = "returned"
        /\ Len(out[v]) >= 1 /\ Skipped(out[v][1])

\* C2 (one winner).  Under every interleaving, for every key at most one
\* write is ever committed and at most one handling, over all invocations,
\* counts the record as processed; if some handling of the key met no
\* storage failure, exactly one write was committed, every other such
\* handling is a skip, and the table holds exactly one entry at the key.
C2_OneWinner ==
    \A n \in DOMAIN records :
        WellFormed(Body(n)) =>
            LET key == KeyOf(Body(n))
                wins == {<<w, i>> \in Workers \X DOMAIN records :
                            /\ i \in Handled(w)
                            /\ WellFormed(Body(i))
                            /\ KeyOf(Body(i)) = key
                            /\ Stored(out[w][i])}
                clean == {<<w, i>> \in Workers \X DOMAIN records :
                            /\ i \in Handled(w)
                            /\ WellFormed(Body(i))
                            /\ KeyOf(Body(i)) = key
                            /\ ~StoreFailed(out[w][i])}
            IN  /\ Len(CommitsAt(key)) <= 1
                /\ Cardinality(wins) <= 1
                /\ Cardinality(EntriesAt(table, key)) <= 1
                /\ clean # {} =>
                     /\ Len(CommitsAt(key)) = 1
                     /\ Cardinality(EntriesAt(table, key)) = 1
                     /\ \A c \in clean \ wins : Skipped(out[c[1]][c[2]])

\* C2 witness: two invocations run at the same time on two keys, and each
\* wins one key and is skipped on the other.
C2_Witness ==
    \E w \in Workers, v \in Workers :
        /\ w # v
        /\ Len(records) = 2
        /\ WellFormed(Body(1)) /\ WellFormed(Body(2))
        /\ KeyOf(Body(1)) # KeyOf(Body(2))
        /\ status[w] = "running" /\ status[v] = "running"
        /\ Len(out[w]) = 2 /\ Len(out[v]) = 2
        /\ Stored(out[w][1]) /\ Skipped(out[w][2])
        /\ Skipped(out[v][1]) /\ Stored(out[v][2])

\* C3 (first write is authoritative).  In every step, every stored item is
\* still the one and only item under its key afterwards, with all its
\* attributes: nothing is overwritten, updated or deleted, and the set of
\* stored keys only grows.
C3_FirstWriteStays ==
    [][\A it \in table : EntriesAt(table', it) = {it}]_vars

\* C3 witness: a delivery carrying another text under a stored key was
\* skipped, at a later time than the stored entry was written.
C3_Witness ==
    \E w \in Workers : \E i \in Handled(w) : \E it \in table :
        /\ Skipped(out[w][i])
        /\ SameKey(it, KeyOf(Body(i)))
        /\ it.original_text # Body(i).text.chars
        /\ it.processed_at = "2024-12-03T10:00:01+00:00"

\* C4 (tenant isolation).  Two well-formed records of the batch have the
\* same key only if they have the same tenant_id and log_id; a record is
\* skipped as a duplicate only of an entry of its own tenant and log_id;
\* every stored item lies under its own tenant's partition; and once two
\* records with the same log_id and different tenants were both handled
\* with the store not failing, the table holds two distinct entries, one
\* per tenant.
C4_TenantIsolation ==
    /\ \A i \in DOMAIN records : \A j \in DOMAIN records :
         (WellFormed(Body(i)) /\ WellFormed(Body(j))
            /\ KeyOf(Body(i)) = KeyOf(Body(j)))
         => (Body(i).tenant_id = Body(j).tenant_id
               /\ Body(i).log_id = Body(j).log_id)
    /\ \A w \in Workers : \A i \in Handled(w) :
         Skipped(out[w][i]) =>
             \E it \in table :
                 /\ SameKey(it, KeyOf(Body(i)))
                 /\ it.tenant_id = Body(i).tenant_id
                 /\ it.log_id = Body(i).log_id
    /\ \A it \in table : \A b \in {Body(n) : n \in DOMAIN records} :
         (WellFormed(b) /\ SameKey(it, KeyOf(b))) => it.tenant_id = b.tenant_id
    /\ \A w \in Workers : \A i \in Handled(w) : \A j \in Handled(w) :
         (/\ WellFormed(Body(i)) /\ WellFormed(Body(j))
          /\ Body(i).log_id = Body(j).log_id
          /\ Body(i).tenant_id # Body(j).tenant_id
          /\ ~StoreFailed(out[w][i]) /\ ~StoreFailed(out[w][j]))
         => \E x \in table : \E y \in table :
                /\ x # y
                /\ x.tenant_id = Body(i).tenant_id /\ x.log_id = Body(i).log_id
                /\ y.tenant_id = Body(j).tenant_id /\ y.log_id = Body(j).log_id

\* C4 witness: one invocation stored the same log_id for two tenants.
C4_Witness ==
    \E w \in Workers :
        /\ Len(out[w]) = 2
        /\ WellFormed(Body(1)) /\ WellFormed(Body(2))
        /\ Body(1).log_id = Body(2).log_id
        /\ Body(1).tenant_id # Body(2).tenant_id
        /\ Stored(out[w][1]) /\ Stored(out[w][2])
        /\ Cardinality(table) = 2

\* C5 (malformed envelopes are counted and skipped), as claimed: handling an
\* envelope whose body is no JSON, no JSON object, or lacks a required
\* member never raises, calls no put_item, and the invocation goes on.
C5_MalformedNeverRaises ==
    \A w \in Workers : \A i \in Handled(w) :
        Malformed(Body(i)) => (~out[w][i].put /\ ~RaisedAt(w, i))

\* C5, the part the code keeps: a body that is no JSON, or an object that
\* lacks a member, is counted as one error and the loop goes on.
C5_UnparseableOrMissing ==
    \A w \in Workers : \A i \in Handled(w) :
        (Body(i).json = "invalid" \/ (Body(i).json = "object" /\ Body(i).has # FieldNames))
            => (~out[w][i].put /\ ~RaisedAt(w, i) /\ error_count[w] >= 1)

\* C6 (transient-failure abort).  When a write fails with a non-duplicate
\* storage error the invocation has raised at that envelope: it is the last
\* envelope handled (none after it is parsed or written), and every write
\* this invocation committed before it is still in the table.
C6_TransientAbort ==
    \A w \in Workers : \A i \in Handled(w) :
        StoreFailed(out[w][i]) =>
            /\ RaisedAt(w, i)
            /\ \A j \in Handled(w) :
                 Stored(out[w][j]) =>
                     /\ j < i
                     /\ Cardinality(EntriesAt(table, KeyOf(Body(j)))) = 1
                     /\ \A it \in EntriesAt(table, KeyOf(Body(j))) :
                          it.original_text = Body(j).text.chars

\* C6 witness: record 1 stored, the write of record 2 failed, the invocation
\* raised and the table holds exactly the one write.
C6_Witness ==
    \E w \in Workers :
        /\ Len(records) = 2
        /\ Len(out[w]) = 2
        /\ Stored(out[w][1]) /\ StoreFailed(out[w][2])
        /\ status[w] = "raised"
        /\ Cardinality(table) = 1
        /\ Len(writes) = 1

\* C7 (only the condition-failed signal is a duplicate).  A write that
\* failed with anything but ConditionalCheckFailedException left the
\* invocation with the exception, and the counters count as processed only
\* the committed writes and as skipped only the condition-failed ones.
C7_OnlyConditionFailedIsDuplicate ==
    \A w \in Workers : \A i \in Handled(w) :
        LET o == out[w][i]
        IN  (o.put /\ o.exc # "none"
               /\ ~(o.exc = "ClientError" /\ o.code = ConditionalCheckFailed)) =>
                /\ status[w] = "raised"
                /\ i = Len(out[w])
                /\ processed_count[w] = CountOf(w, Stored)
                /\ skipped_count[w] = CountOf(w, Skipped)
                /\ error_count[w] > CountOf(w, LAMBDA x : ~x.put)

\* C7 witness: after a duplicate skip, a ClientError with another code
\* ended the invocation.
C7_Witness ==
    \E w \in Workers :
        /\ Len(out[w]) = 2
        /\ Skipped(out[w][1])
        /\ out[w][2].exc = "ClientError"
        /\ out[w][2].code = "ProvisionedThroughputExceededException"
        /\ status[w] = "raised"
        /\ skipped_count[w] = 1 /\ processed_count[w] = 0

\* C8 (unexpected exceptions are re-raised).  An exception other than a JSON
\* decode error, a KeyError or a condition-failed write ends the invocation
\* at the envelope it was raised for.
C8_UnexpectedReraised ==
    \A w \in Workers : \A i \in Handled(w) :
        (out[w][i].exc \notin {"none", "JSONDecodeError", "KeyError"}
           /\ ~Skipped(out[w][i]))
        => RaisedAt(w, i)

\* C8 witness: a TypeError, raised before any write, ended the invocation
\* after an earlier envelope was stored.
C8_Witness ==
    \E w \in Workers :
        /\ Len(out[w]) = 2
        /\ Stored(out[w][1])
        /\ out[w][2].exc = "TypeError" /\ ~out[w][2].put
        /\ status[w] = "raised"

AllWellFormedStored ==
    \A n \in DOMAIN records :
        WellFormed(Body(n)) =>
            /\ Len(CommitsAt(KeyOf(Body(n)))) = 1
            /\ EntriesAt(table, KeyOf(Body(n))) # {}
Delivered == \E w \in Workers : status[w] # "idle"

\* C9 (eventual exactly-once storage), as claimed: with raised batches
\* redelivered and the store failing only finitely often, once a batch of
\* well-formed and malformed envelopes is delivered every well-formed record
\* of it is eventually stored, and no key is ever committed twice.
C9_EventuallyStoredOnce ==
    /\ (Delivered /\ \A n \in DOMAIN records :
            WellFormed(Body(n)) \/ Malformed(Body(n)))
         ~> AllWellFormedStored
    /\ [](\A n \in DOMAIN records :
            WellFormed(Body(n)) => Len(CommitsAt(KeyOf(Body(n)))) <= 1)

\* C9, the part the code keeps: the same for a batch in which no envelope
\* makes the handler raise before the write.
C9_WithoutPoison ==
    /\ (Delivered /\ \A n \in DOMAIN records :
            ExceptionBeforeWrite(Body(n)) \in {"none", "JSONDecodeError", "KeyError"})
         ~> AllWellFormedStored
    /\ [](\A n \in DOMAIN records :
            WellFormed(Body(n)) => Len(CommitsAt(KeyOf(Body(n)))) <= 1)

\* C10 (a malformed envelope never blocks its batch), as claimed: in a batch
\* of well-formed and malformed envelopes an invocation raises only for a
\* failed write, and every well-formed record behind a malformed one is
\* still attempted before the invocation ends.
C10_MalformedNeverBlocks ==
    (\A n \in DOMAIN records : WellFormed(Body(n)) \/ Malformed(Body(n))) =>
        \A w \in Workers :
            /\ status[w] = "raised" => StoreFailed(out[w][Len(out[w])])
            /\ status[w] = "returned" =>
                 \A n \in DOMAIN records : WellFormed(Body(n)) => out[w][n].put

\* C10, the part the code keeps: the same when the malformed envelopes are
\* bodies that are no JSON or objects that lack a member.
C10_WithoutPoison ==
    (\A n \in DOMAIN records :
         ExceptionBeforeWrite(Body(n)) \in {"none", "JSONDecodeError", "KeyError"}) =>
        \A w \in Workers :
            /\ status[w] = "raised" => StoreFailed(out[w][Len(out[w])])
            /\ status[w] = "returned" =>
                 \A n \in DOMAIN records : WellFormed(Body(n)) => out[w][n].put

\* C11 (every outcome yields the counts), as claimed: an invocation that is
\* over, whether it attempted every record or aborted on a failed write, has
\* returned a BatchResult whose total is the number of envelopes received.
C11_AlwaysBatchResult ==
    \A w \in Workers :
        (\/ status[w] = "returned"
         \/ status[w] = "raised" /\ StoreFailed(out[w][Len(out[w])])) =>
            /\ response[w].statusCode = 200
            /\ response[w].body.total = Len(records)

\* C11 as amended: an invocation that attempted every record returns status
\* 200 with its counters and with total equal to the number of envelopes
\* received; an invocation that aborted raises and returns no BatchResult.
C11_ReturnedTotals ==
    \A w \in Workers :
        /\ status[w] = "returned" =>
              /\ Len(out[w]) = Len(records)
              /\ response[w].statusCode = 200
              /\ response[w].body.total = Len(records)
              /\ response[w].body.processed = processed_count[w]
              /\ response[w].body.skipped_duplicates = skipped_count[w]
              /\ response[w].body.errors = error_count[w]
        /\ status[w] # "returned" => response[w] = NoResponse

\* C11 witness: of two envelopes one invocation attempted both and returned
\* total 2 with one duplicate, the other aborted on the first.
C11_Witness ==
    \E w \in Workers, v \in Workers :
        /\ Len(records) = 2
        /\ status[w] = "returned"
        /\ response[w].body.total = 2
        /\ response[w].body.skipped_duplicates = 1
        /\ status[v] = "raised" /\ Len(out[v]) = 1 /\ StoreFailed(out[v][1])

\* the malformed envelopes of the batch
MalformedCount == Cardinality({n \in DOMAIN records : Malformed(Body(n))})
\* what C12 says of an invocation w that met no failing write
ErrorsIsolated(w) ==
    (\A i \in Handled(w) : ~StoreFailed(out[w][i])) =>
        /\ status[w] # "raised"
        /\ status[w] = "returned" =>
              /\ response[w].statusCode = 200
              /\ response[w].body.errors = MalformedCount
              /\ \A n \in DOMAIN records :
                    WellFormed(Body(n)) => (Stored(out[w][n]) \/ Skipped(out[w][n]))
              /\ response[w].body.processed + response[w].body.skipped_duplicates
                    + response[w].body.errors = response[w].body.total

\* C12 (batch error isolation), as claimed: in a batch of well-formed
\* envelopes and k malformed ones (no JSON, no JSON object, or a member
\* missing) an invocation that meets no failing write does not raise, and
\* returns 200 with errors = k, every well-formed envelope written or
\* skipped as a duplicate, and processed + skipped_duplicates + errors =
\* total.
C12_ErrorIsolation ==
    (\A n \in DOMAIN records : WellFormed(Body(n)) \/ Malformed(Body(n))) =>
        \A w \in Workers : ErrorsIsolated(w)

\* C12, the part the code keeps: the same when the malformed envelopes are
\* bodies that are no JSON or objects that lack a member.
C12_WithoutPoison ==
    (\A n \in DOMAIN records :
         ExceptionBeforeWrite(Body(n)) \in {"none", "JSONDecodeError", "KeyError"}) =>
        \A w \in Workers : ErrorsIsolated(w)

\* C13 (duplicate counting).  An invocation that returned reports as
\* processed the number of its put_item calls that committed and as
\* skipped_duplicates the number of its put_item calls rejected because the
\* key existed, whatever the sequence of write outcomes; every put_item call
\* it made is one or the other, and the rest of the envelopes are its errors.
C13_DuplicateCounting ==
    \A w \in Workers :
        status[w] = "returned" =>
            LET committed == {i \in Handled(w) : Stored(out[w][i])}
                rejected == {i \in Handled(w) : Skipped(out[w][i])}
                calls == {i \in Handled(w) : out[w][i].put}
            IN  /\ response[w].body.processed = Cardinality(committed)
                /\ response[w].body.skipped_duplicates = Cardinality(rejected)
                /\ calls = committed \cup rejected
                /\ response[w].body.errors = Len(records) - Cardinality(calls)
                /\ \A i \in committed :
                       Body(i) \in WellFormedBodies /\ BuiltItem[Body(i)][w] \in table
                /\ \A i \in rejected : EntriesAt(table, KeyOf(Body(i))) # {}

\* C13 witness: the write outcomes [duplicate, success] gave processed = 1,
\* skipped_duplicates = 1, total = 2.
C13_Witness ==
    \E w \in Workers :
        /\ status[w] = "returned"
        /\ Len(out[w]) = 2
        /\ Skipped(out[w][1]) /\ Stored(out[w][2])
        /\ response[w].body.processed = 1
        /\ response[w].body.skipped_duplicates = 1
        /\ response[w].body.total = 2

\* C14 (what a stored entry holds).  Every entry the table committed was
\* written for a record of the batch and has PK = "TENANT#" + tenant_id,
\* SK = "LOG#" + log_id, the record's text verbatim as original_text, the
\* redacted text as modified_data, and the record's producer timestamp as
\* ingested_at; the entry of the record with the phone number holds
\* "c [REDACTED]" and that of the clean record holds its text.
C14_StoredEntry ==
    \A n \in DOMAIN writes :
        LET it == writes[n]
        IN  /\ it \in table
            /\ \E i \in DOMAIN records :
                 /\ WellFormed(Body(i))
                 /\ it.PK = "TENANT#" \o Body(i).tenant_id
                 /\ it.SK = "LOG#" \o Body(i).log_id
                 /\ it.original_text = Body(i).text.chars
                 /\ it.modified_data = RedactedText[Body(i).text.chars]
                 /\ it.ingested_at = Body(i).timestamp
            /\ it.original_text = PiiText =>
                 it.modified_data = <<"c", " ">> \o TokRedacted
            /\ it.original_text = CleanText => it.modified_data = CleanText

\* C14 witness: the record with the phone number is stored, its text kept
\* verbatim and its modified_data redacted.
C14_Witness ==
    \E it \in table :
        /\ it.PK = "TENANT#A" /\ it.SK = "LOG#X"
        /\ it.original_text = PiiText
        /\ it.modified_data # it.original_text
        /\ it.ingested_at = "2024-12-03T10:00:00Z"

\* C15 (text metrics).  For every text length n from 0 to the ingestion cap
\* the stored text_length is n and the stored processing_time_sec is exactly
\* 5n hundredths of a second: 1.00 for n = 20, 0.1 for n = 2, 0 for n = 0.
C15_TextMetrics ==
    (call.fn = "metrics" /\ result # NoResult) =>
        /\ result.text_length = call.text_length
        /\ result.processing_time_sec = HundredthsPerChar * call.text_length
        /\ call.text_length = 20 => result.processing_time_sec = 100
        /\ call.text_length = 2 => result.processing_time_sec = 10
        /\ call.text_length = 0 => result.processing_time_sec = 0

\* C15 witness: the metrics of a text of 17000 characters, whose product
\* with 0.05 is no exact double.
C15_Witness ==
    /\ call.fn = "metrics"
    /\ call.text_length = MAX_CHAR_LIMIT
    /\ result # NoResult
    /\ FloatTimes005(call.text_length).significand # <<>>
    /\ result.processing_time_sec = 85000

\* the positions where the shape DDD-DDD-DDDD occurs in t
Phone10Occurrences(t) == {s \in 1..Len(t) : Phone10MatchLen(t, s) > 0}
\* those a scan from the left reaches: the ones that overlap no occurrence
\* taken before them
RECURSIVE Phone10Reached(_, _)
Phone10Reached(t, s) ==
    IF s > Len(t) THEN {}
    ELSE IF s \in Phone10Occurrences(t) THEN {s} \cup Phone10Reached(t, s + 12)
    ELSE Phone10Reached(t, s + 1)
\* the occurrence at s is replaced as a whole by one token: the output is
\* the redacted text before it, the token, and the redacted text after it
ConsumedWhole(t, r, s) ==
    r = redact_sensitive_data(SubSeq(t, 1, s - 1)) \o TokRedacted
          \o redact_sensitive_data(SubSeq(t, s + 12, Len(t)))

\* C16 (redaction ordering), as claimed: every occurrence of the shape
\* DDD-DDD-DDDD in the input is consumed whole and replaced by a single
\* [REDACTED] token, never partially matched by the 7-digit rule.
C16_EveryOccurrenceWhole ==
    (call.fn = "redact_sensitive_data" /\ result # NoResult) =>
        \A s \in Phone10Occurrences(call.text) :
            ConsumedWhole(call.text, result.text, s)

\* C16 as amended: every occurrence of the shape that overlaps no occurrence
\* consumed before it is consumed whole and replaced by a single [REDACTED]
\* token; "Contact: 123-456-7890" becomes "Contact: [REDACTED]".
C16_ReachedOccurrenceWhole ==
    (call.fn = "redact_sensitive_data" /\ result # NoResult) =>
        /\ \A s \in Phone10Reached(call.text, 1) :
              ConsumedWhole(call.text, result.text, s)
        /\ call.text = <<"C", "o", "n", "t", "a", "c", "t", ":", " ", "1", "2", "3", "-", "4", "5", "6", "-", "7", "8", "9", "0">> =>
              result.text = <<"C", "o", "n", "t", "a", "c", "t", ":", " ">> \o TokRedacted

\* C16 witness: the 10-digit number behind a 7-digit one, each replaced by
\* its own token.
C16_Witness ==
    /\ call.fn = "redact_sensitive_data"
    /\ call.text = <<"5", "5", "5", "-", "1", "2", "3", "4">> \o <<"1", "2", "3", "-", "4", "5", "6", "-", "7", "8", "9", "0">>
    /\ result # NoResult
    /\ result.text = TokRedacted \o TokRedacted

\* The four PII shapes as the specification describes them.  In a pattern
\* D stands for a digit and every other character for itself.
ShapeAt(t, s, pat) ==
    /\ s + Len(pat) - 1 <= Len(t)
    /\ \A k \in DOMAIN pat :
         IF pat[k] = "D" THEN t[s + k - 1] \in Digits ELSE t[s + k - 1] = pat[k]
AllIn(t, from, to, class) == \A j \in from..to : t[j] \in class
\* four groups of one to three digits with dots between them
DottedQuadAt(t, s) ==
    \E n1 \in 1..3, n2 \in 1..3, n3 \in 1..3, n4 \in 1..3 :
        LET p2 == s + n1 + 1
            p3 == p2 + n2 + 1
            p4 == p3 + n3 + 1
        IN  /\ p4 + n4 - 1 <= Len(t)
            /\ AllIn(t, s, s + n1 - 1, Digits) /\ t[s + n1] = "."
            /\ AllIn(t, p2, p2 + n2 - 1, Digits) /\ t[p2 + n2] = "."
            /\ AllIn(t, p3, p3 + n3 - 1, Digits) /\ t[p3 + n3] = "."
            /\ AllIn(t, p4, p4 + n4 - 1, Digits)
\* a local part of word, dot, %, + and - characters, an at-sign, a domain of
\* word, dot and hyphen characters, a dot and two or more letters, between
\* word boundaries
EmailShapeAt(t, s, e) ==
    /\ BoundaryBefore(t, s) /\ BoundaryBefore(t, e + 1)
    /\ \E a \in (s + 1)..e : \E d \in (a + 2)..(e - 2) :
         /\ t[a] = "@" /\ t[d] = "."
         /\ AllIn(t, s, a - 1, WordChars \cup {".", "%", "+", "-"})
         /\ AllIn(t, a + 1, d - 1, WordChars \cup {".", "-"})
         /\ AllIn(t, d + 1, e, Letters)
ContainsPiiShape(t) ==
    \E s \in 1..Len(t) :
        \/ ShapeAt(t, s, <<"D", "D", "D", "-", "D", "D", "D", "-", "D", "D", "D", "D">>)
        \/ ShapeAt(t, s, <<"D", "D", "D", "-", "D", "D", "D", "D">>)
        \/ DottedQuadAt(t, s)
        \/ \E e \in s..Len(t) : EmailShapeAt(t, s, e)

\* C17 (clean text is a fixed point), as claimed: a text that contains none
\* of the four PII shapes comes back from the redaction unchanged.
C17_CleanIsFixedPoint ==
    (call.fn = "redact_sensitive_data" /\ result # NoResult
       /\ ~ContainsPiiShape(call.text))
    => result.text = call.text

\* C17, the part the code keeps: the same for the texts without a vertical
\* bar, and "Order ID: 555-12" and "888-99" come back unchanged.
C17_WithoutBar ==
    (call.fn = "redact_sensitive_data" /\ result # NoResult)
    => /\ (~ContainsPiiShape(call.text) /\ \A j \in DOMAIN call.text : call.text[j] # "|")
            => result.text = call.text
       /\ call.text \in {<<"O", "r", "d", "e", "r", " ", "I", "D", ":", " ", "5", "5", "5", "-", "1", "2">>, <<"8", "8", "8", "-", "9", "9">>} => result.text = call.text

\* ------------------------------------------------------ ingestion claims
\* the fields the handler takes from the event, when the event has any
Extracted == Parse(event)
ValidTenant(v) ==
    /\ v.str
    /\ Len(v.chars) \in 1..MAX_TENANT_ID_LENGTH
    /\ \A j \in DOMAIN v.chars : v.chars[j] \in TenantChars
Answered == http # NoHttp

\* C18 (tenant_id of an enqueued message), as claimed: every enqueued
\* message has a tenant_id that is a string of 1 to 100 letters, digits,
\* hyphens and underscores, and a request whose tenant_id is anything else
\* is answered 400 with nothing enqueued.
C18_TenantIdValid ==
    /\ \A n \in DOMAIN queue : ValidTenant(queue[n].MessageBody.tenant_id)
    /\ (~Extracted.reply /\ ~ValidTenant(Extracted.tenant_id))
         => /\ queue = <<>>
            /\ Answered => http.statusCode = 400

\* C18, the part the code keeps: the same for every tenant_id that does not
\* end in a newline.
EndsInNewline(v) == v.str /\ v.chars # <<>> /\ v.chars[Len(v.chars)] = "\n"
C18_ExceptTrailingNewline ==
    (~Extracted.reply /\ ~EndsInNewline(Extracted.tenant_id))
    => /\ \A n \in DOMAIN queue : ValidTenant(queue[n].MessageBody.tenant_id)
       /\ ~ValidTenant(Extracted.tenant_id)
            => /\ queue = <<>>
               /\ Answered => http.statusCode = 400
C18_Rejected ==
    /\ ~Extracted.reply /\ Extracted.tenant_id = Str(<<"a", "c", "!", "e">>)
    /\ Truthy(Extracted.text) /\ Answered /\ http.statusCode = 400
C18_Accepted ==
    /\ queue # <<>> /\ http.statusCode = 202
    /\ queue[1].MessageBody.tenant_id = Str(Repeat("a", MAX_TENANT_ID_LENGTH))

\* the JSON body of the event has a log_id member
HasLogIdMember ==
    /\ event.headers.kind = "dict"
    /\ Contains(HeaderGet(event.headers.items, "content-type", Str(<<>>)).chars, AppJson)
    /\ event.body.kind = "str" /\ event.body.json = "object"
    /\ "log_id" \in event.body.has
ValidLogId(v) == v.str /\ Len(v.chars) <= MAX_LOG_ID_LENGTH

\* C19 (log_id of an enqueued message), as claimed: every enqueued message
\* carries a log_id that is a string of at most 100 characters, the caller's
\* value when the JSON body has a log_id member and a generated UUID
\* otherwise; a log_id member that is no such string is never enqueued.
C19_LogIdValid ==
    \A n \in DOMAIN queue :
        /\ ValidLogId(queue[n].MessageBody.log_id)
        /\ queue[n].MessageBody.log_id =
             IF HasLogIdMember THEN event.body.log_id ELSE Uuid4

\* C19, the part the code keeps: the same for every request whose log_id
\* member is a string or a non-string that Python counts as true.
C19_ExceptFalsyMember ==
    (HasLogIdMember => (event.body.log_id.str \/ Truthy(event.body.log_id)))
    => \A n \in DOMAIN queue :
        /\ ValidLogId(queue[n].MessageBody.log_id)
        /\ queue[n].MessageBody.log_id =
             IF HasLogIdMember THEN event.body.log_id ELSE Uuid4
C19_CallerValue ==
    /\ HasLogIdMember /\ queue # <<>>
    /\ queue[1].MessageBody.log_id = Str(Repeat("x", MAX_LOG_ID_LENGTH))
C19_Generated ==
    /\ ~HasLogIdMember /\ queue # <<>> /\ queue[1].MessageBody.log_id = Uuid4
C19_NoneEnqueued ==
    /\ HasLogIdMember /\ queue # <<>> /\ queue[1].MessageBody.log_id = PyNone
    /\ http.statusCode = 202

ValidText(v) == v.str /\ Len(v.chars) \in 1..MAX_CHAR_LIMIT
TooLong(v) == v.str /\ Len(v.chars) > MAX_CHAR_LIMIT
\* missing, empty or no string
NoText(v) == ~v.str \/ v.chars = <<>>

\* C20 (text of an enqueued message), as claimed: every enqueued message has
\* a text that is a non-empty string of at most 17000 characters; a longer
\* text is answered 413 and a missing, empty or non-string text 400, and
\* nothing is sent to the queue in either case.
C20_TextChecked ==
    /\ \A n \in DOMAIN queue : ValidText(queue[n].MessageBody.text)
    /\ (~Extracted.reply /\ TooLong(Extracted.text))
         => /\ queue = <<>>
            /\ Answered => http.statusCode = 413
    /\ (~Extracted.reply /\ NoText(Extracted.text))
         => /\ queue = <<>>
            /\ Answered => http.statusCode = 400

\* C20, amended: every enqueued message has a text that is a non-empty
\* string of at most 17000 characters; a longer text is answered 413 when
\* the tenant_id and the log_id are valid and 400 or 413 when one of them is
\* not; a missing, empty or non-string text is answered
\* 400; nothing is sent to the queue in any of these cases.
C20_TextCheckedAfterIds ==
    /\ \A n \in DOMAIN queue : ValidText(queue[n].MessageBody.text)
    /\ (~Extracted.reply /\ TooLong(Extracted.text))
         => /\ queue = <<>>
            /\ Answered =>
                 /\ http.statusCode \in {400, 413}
                 /\ (ValidTenant(Extracted.tenant_id) /\ ValidLogId(Extracted.log_id))
                      => http.statusCode = 413
    /\ (~Extracted.reply /\ NoText(Extracted.text))
         => /\ queue = <<>>
            /\ Answered => http.statusCode = 400
C20_Witness ==
    /\ ~Extracted.reply /\ TooLong(Extracted.text)
    /\ ValidTenant(Extracted.tenant_id) /\ ValidLogId(Extracted.log_id)
    /\ http.statusCode = 413 /\ queue = <<>>
C20_LongestAccepted ==
    /\ queue # <<>> /\ Len(queue[1].MessageBody.text.chars) = MAX_CHAR_LIMIT
    /\ http.statusCode = 202
C20_TooLongAnswered400 ==
    /\ ~Extracted.reply /\ TooLong(Extracted.text) /\ http.statusCode = 400

\* C21 (202 means enqueued).  A 202 is answered only when exactly one
\* message is in the queue, and the tenant_id and log_id of its body are
\* those of the enqueued message; a request answered 400 or 413 never got
\* to the send and the queue is as it was; after a send that failed the
\* answer is not 202 and the queue is as it was.
C21_AcceptedMeansEnqueued ==
    /\ http.statusCode = 202
         => /\ Len(queue) = 1
            /\ http.body.tenant_id = queue[1].MessageBody.tenant_id
            /\ http.body.log_id = queue[1].MessageBody.log_id
            /\ queue[1].MessageBody = message.msg
            /\ sent = "returned"
    /\ http.statusCode \in {400, 413} => (queue = <<>> /\ sent = "none")
    /\ sent \in {"ClientError", "Exception"}
         => (queue = <<>> /\ Answered /\ http.statusCode # 202)
    /\ queue # <<>> => http.statusCode = 202
\* the queue only ever grows by the one message of a 202
C21_OneSend ==
    [][queue' # queue => (queue = <<>> /\ Len(queue') = 1 /\ http'.statusCode = 202)]_vars
C21_Witness ==
    /\ http.statusCode = 202 /\ Len(queue) = 1
    /\ http.body.log_id = Str(<<"X">>)
    /\ http.body.tenant_id = Str(<<"A", "_", "b", "-", "9">>)
C21_FailedSend ==
    /\ sent = "ClientError" /\ http.statusCode = 503 /\ queue = <<>>

\* C22 (the ingestion handler never raises).  Every event is answered: an
\* event not yet answered always has a next step of the handler, and what
\* ends the handling is a response with a statusCode of 202, 400, 413, 500
\* or 503, a Content-Type header of application/json, and a JSON object as
\* its body (message, log_id and tenant_id for a 202, error otherwise).
C22_AlwaysAResponse ==
    /\ event # NoEvent /\ ~Answered => ENABLED IngestNext
    /\ Answered =>
         /\ http.statusCode \in {202, 400, 413, 500, 503}
         /\ <<"Content-Type", "application/json">> \in http.headers
         /\ \A h \in http.headers : h[1] = "Content-Type" => h[2] = "application/json"
         /\ IF http.statusCode = 202
            THEN DOMAIN http.body = {"message", "log_id", "tenant_id"}
            ELSE "error" \in DOMAIN http.body
\* C22 witness: the event whose headers are None is answered 500, and so is
\* the send that raised something else than ClientError.
C22_Witness ==
    /\ event # NoEvent /\ event.headers.kind = "None"
    /\ http = InternalError
C22_SendRaised ==
    /\ sent = "Exception" /\ http = InternalError

C23_OtherException ==
    /\ sent = "Exception" /\ http.statusCode = 500

\* the headers of the event as <<name, value>> pairs, and its content type
EventHeaders == IF event.headers.kind = "dict" THEN event.headers.items ELSE {}
ContentTypes == {h[2] : h \in {g \in EventHeaders : LowerName(g[1]) = "content-type"}}
\* the media type of a content type: what stands before the parameters
MediaType(chars) ==
    IF \E k \in DOMAIN chars : chars[k] = ";"
    THEN SubSeq(chars, 1, (CHOOSE k \in DOMAIN chars :
                             chars[k] = ";" /\ \A j \in 1..(k - 1) : chars[j] # ";") - 1)
    ELSE chars
IsRequestOf(type) == \E c \in ContentTypes : c.str /\ MediaType(c.chars) = type
\* a request with headers whose content type, if it has one, is a string
HasStringContentType ==
    /\ event # NoEvent /\ event.headers.kind # "None"
    /\ \A c \in ContentTypes : c.str
TenantHeaders == {h[2] : h \in {g \in EventHeaders : LowerName(g[1]) = "x-tenant-id"}}

\* C24 (normalization by submission path), as claimed: the message enqueued
\* for a text/plain request has source "text", the tenant of the
\* X-Tenant-Id header whatever the case of the header name, and a generated
\* log_id; the message enqueued for an application/json request has source
\* "json"; a request with any other content type is answered 400
\* "Unsupported Content-Type" and nothing is enqueued.
C24_NormalizedByPath ==
    /\ \A n \in DOMAIN queue :
         /\ IsRequestOf(TextPlain)
              => /\ queue[n].MessageBody.source = "text"
                 /\ queue[n].MessageBody.tenant_id \in TenantHeaders
                 /\ queue[n].MessageBody.log_id = Uuid4
         /\ IsRequestOf(AppJson) => queue[n].MessageBody.source = "json"
    /\ (HasStringContentType /\ ~IsRequestOf(TextPlain) /\ ~IsRequestOf(AppJson))
         => /\ queue = <<>> /\ sent = "none"
            /\ Answered => http = BadRequest("Unsupported Content-Type")

\* C24, the part the code keeps: the same with the paths told apart as the
\* code does, by the content type containing application/json, or else
\* text/plain, anywhere in it.
IsJsonPath == \E c \in ContentTypes : c.str /\ Contains(c.chars, AppJson)
IsTextPath == ~IsJsonPath /\ \E c \in ContentTypes : c.str /\ Contains(c.chars, TextPlain)
C24_BySubstring ==
    /\ \A n \in DOMAIN queue :
         /\ IsTextPath
              => /\ queue[n].MessageBody.source = "text"
                 /\ queue[n].MessageBody.tenant_id \in TenantHeaders
                 /\ queue[n].MessageBody.log_id = Uuid4
         /\ IsJsonPath => queue[n].MessageBody.source = "json"
         /\ IsTextPath \/ IsJsonPath
    /\ (HasStringContentType /\ ~IsTextPath /\ ~IsJsonPath)
         => /\ queue = <<>> /\ sent = "none"
            /\ Answered => http = BadRequest("Unsupported Content-Type")
C24_TextEnqueued ==
    /\ IsRequestOf(TextPlain) /\ queue # <<>>
    /\ <<"X-TENANT-ID", Str(<<"a", "c", "m", "e">>)>> \in EventHeaders
    /\ queue[1].MessageBody.source = "text"
C24_LookalikeEnqueued ==
    /\ ~IsRequestOf(AppJson) /\ ~IsRequestOf(TextPlain) /\ HasStringContentType
    /\ queue # <<>> /\ http.statusCode = 202
    /\ queue[1].MessageBody.source = "json"
C24_Unsupported ==
    /\ HasStringContentType /\ http = BadRequest("Unsupported Content-Type")

\* ---------------------------------------------------- worker claims, 2
\* invocation w handles one more envelope in this step
HandlesOne(w) == Len(out'[w]) = Len(out[w]) + 1
LastOutcome(w) == out'[w][Len(out'[w])]

\* C25 (a transient storage error is counted once), as claimed: when the
\* write of a record fails with a storage error that is no duplicate
\* signal, the errors counter of the invocation goes up by exactly one and
\* the exception leaves the invocation.
C25_CountedOnce ==
    [][\A w \in Workers :
         (HandlesOne(w) /\ StoreFailed(LastOutcome(w)))
         => /\ error_count'[w] = error_count[w] + 1
            /\ status'[w] = "raised"]_vars

\* C25, the part the code keeps: the exception leaves the invocation, the
\* other counters and the table stay as they are, and the errors counter
\* goes up by one when put_item raised something else than ClientError and
\* by two when it raised a ClientError.
C25_CountedOnceOrTwice ==
    [][\A w \in Workers :
         (HandlesOne(w) /\ StoreFailed(LastOutcome(w)))
         => /\ error_count'[w] = error_count[w]
                 + (IF LastOutcome(w).exc = "ClientError" THEN 2 ELSE 1)
            /\ status'[w] = "raised"
            /\ processed_count'[w] = processed_count[w]
            /\ skipped_count'[w] = skipped_count[w]
            /\ table' = table]_vars
C25_CountedTwice ==
    \E w \in Workers :
        /\ status[w] = "raised" /\ Len(out[w]) = 1
        /\ StoreFailed(out[w][1]) /\ out[w][1].exc = "ClientError"
        /\ error_count[w] = 2

PutItemCalls(w) == SelectSeq(invoked[w], LAMBDA c : c.fn = "put_item")
\* the well-formed envelopes before envelope j that have its key
SameKeyEarlier(j) ==
    {i \in 1..(j - 1) : WellFormed(Body(i)) /\ KeyOf(Body(i)) = KeyOf(Body(j))}
FirstOf(S) == CHOOSE i \in S : \A k \in S : i <= k

\* C26 (records are processed in envelope order).  In every invocation the
\* calls are made envelope after envelope, the put_item calls in strictly
\* rising envelope order (so at most one to an envelope), each for the key
\* of its envelope, and when the loop stands at an envelope every envelope
\* before it has its outcome; when a key comes twice in a batch, the later
\* envelope is never the one stored: its write is rejected as a duplicate
\* (counted so when the invocation returns, unless the store fails), and
\* the entry under the key holds the text of the first envelope with it.
C26_InEnvelopeOrder ==
    \A w \in Workers :
        /\ \A k \in 1..(Len(invoked[w]) - 1) :
             invoked[w][k].envelope <= invoked[w][k + 1].envelope
        /\ \A k \in 1..(Len(PutItemCalls(w)) - 1) :
             PutItemCalls(w)[k].envelope < PutItemCalls(w)[k + 1].envelope
        /\ \A k \in DOMAIN PutItemCalls(w) :
             LET c == PutItemCalls(w)[k]
             IN  /\ c.envelope \in Handled(w)
                 /\ out[w][c.envelope].put
                 /\ c.arg = KeyOf(Body(c.envelope))
        /\ Len(PutItemCalls(w)) = Cardinality({i \in Handled(w) : out[w][i].put})
        /\ status[w] = "running" => Len(out[w]) = idx[w] - 1
        /\ status[w] = "returned" => Len(out[w]) = Len(records)
        /\ \A j \in Handled(w) :
             (WellFormed(Body(j)) /\ SameKeyEarlier(j) # {} /\ out[w][j].put)
             => /\ ~Stored(out[w][j])
                /\ Skipped(out[w][j]) \/ StoreFailed(out[w][j])
                /\ \A it \in EntriesAt(table, KeyOf(Body(j))) :
                     it.original_text = Body(FirstOf(SameKeyEarlier(j))).text.chars
\* C26 witness: a batch with the key (A, X) twice, under different texts,
\* was handled to its end: the first envelope stored, the second skipped.
C26_Witness ==
    \E w \in Workers :
        /\ status[w] = "returned" /\ Len(records) = 2
        /\ Body(1) = Object("A", "X", Str(PiiText))
        /\ Body(2) = Object("A", "X", Str(CleanText))
        /\ Stored(out[w][1]) /\ Skipped(out[w][2])
        /\ response[w].body.processed = 1
        /\ response[w].body.skipped_duplicates = 1

\* the positions in the calls of invocation w that are for envelope i
CallsFor(w, i, fn) ==
    {k \in DOMAIN invoked[w] : invoked[w][k].envelope = i /\ invoked[w][k].fn = fn}

\* C27 (the simulated delay).  For every well-formed record an invocation
\* has handled there is exactly one time.sleep call, of 0.05 s a character
\* of the text (to the hundredth of a second), directly followed by the one
\* put_item call of that record and before every call for a later envelope,
\* whether the write committed, was rejected as a duplicate, or failed.
C27_DelayOncePerRecord ==
    \A w \in Workers : \A i \in Handled(w) :
        WellFormed(Body(i)) =>
            /\ out[w][i].put
            /\ Stored(out[w][i]) \/ Skipped(out[w][i]) \/ StoreFailed(out[w][i])
            /\ Cardinality(CallsFor(w, i, "sleep")) = 1
            /\ Cardinality(CallsFor(w, i, "put_item")) = 1
            /\ \A k \in CallsFor(w, i, "sleep") :
                 /\ invoked[w][k].arg = SleepArg[Len(Body(i).text.chars)]
                 /\ SleepHundredths[Len(Body(i).text.chars)]
                      = HundredthsPerChar * Len(Body(i).text.chars)
                 /\ k + 1 \in CallsFor(w, i, "put_item")
                 /\ \A m \in DOMAIN invoked[w] :
                      invoked[w][m].envelope > i => m > k + 1
                 /\ \A m \in DOMAIN invoked[w] :
                      invoked[w][m].envelope < i => m < k
\* C27 witness: the write of the record with the ten-character text failed,
\* after its delay.
C27_Witness ==
    \E w \in Workers :
        /\ status[w] = "raised" /\ Len(out[w]) = 1
        /\ Body(1).text = Str(PiiText)
        /\ StoreFailed(out[w][1])
        /\ Len(invoked[w]) = 2 /\ invoked[w][1].fn = "sleep"
        /\ RoundHundredths(invoked[w][1].arg) = 50

\* C28 (a malformed envelope only counts as an error).  The step that
\* handles a malformed envelope (unparseable, no object, or a member
\* missing) calls neither put_item nor time.sleep, leaves the table, the
\* committed writes and the processed and skipped_duplicates counters as
\* they are, and adds exactly one to errors.
C28_MalformedOnlyCounted ==
    [][\A w \in Workers :
         (HandlesOne(w) /\ Malformed(Body(Len(out'[w]))))
         => /\ ~LastOutcome(w).put
            /\ invoked'[w] = invoked[w]
            /\ table' = table
            /\ writes' = writes
            /\ failures' = failures
            /\ processed_count'[w] = processed_count[w]
            /\ skipped_count'[w] = skipped_count[w]
            /\ error_count'[w] = error_count[w] + 1]_vars
\* C28 witness: an invocation stored the first record and went past a
\* second envelope with a member missing.
C28_Witness ==
    \E w \in Workers :
        /\ Len(out[w]) = 2 /\ Stored(out[w][1])
        /\ Body(2).json = "object" /\ Body(2).has # FieldNames
        /\ out[w][2].exc = "KeyError"
        /\ error_count[w] = 1 /\ processed_count[w] = 1
        /\ Len(invoked[w]) = 2 /\ Cardinality(table) = 1

\* ------------------------------------------ ingestion and worker together
\* The worker receives as record['body'] the MessageBody the ingestion
\* handler sent: json.dumps of the message dict (ingestion, line 160), which
\* json.loads (worker, line 28) turns back into a dict with the same keys.

\* the characters of a Python string as one string
RECURSIVE Join(_)
Join(chars) == IF chars = <<>> THEN "" ELSE chars[1] \o Join(Tail(chars))

\* worker, lines 36-37 and 41: a value in an f-string, a string as it is and
\* any other value by its repr
Format(v) == IF v.str THEN Join(v.chars) ELSE v.py

\* worker, lines 28-34: the body of a queue entry as the worker reads it.
\* tenant_id and log_id are kept as the worker formats them into its keys.
ReceivedBody(entry) ==
    LET m == entry.MessageBody
    IN  [json |-> "object", has |-> DOMAIN m,
         tenant_id |-> Format(m.tenant_id), log_id |-> Format(m.log_id),
         text |-> IF m.text.str THEN Str(m.text.chars) ELSE NotAString,
         source |-> m.source, timestamp |-> m.timestamp]

C29_LongestText ==
    \E i \in DOMAIN queue :
        /\ ReceivedBody(queue[i]).source = "json"
        /\ Len(ReceivedBody(queue[i]).text.chars) = MAX_CHAR_LIMIT
        /\ WellFormed(ReceivedBody(queue[i]))

\* a message of the plain-text path, with the log_id the handler generated
C29_TextPath ==
    \E i \in DOMAIN queue :
        /\ ReceivedBody(queue[i]).source = "text"
        /\ ReceivedBody(queue[i]).log_id = Join(Uuid4.chars)
        /\ WellFormed(ReceivedBody(queue[i]))

\* ----------------------------------------------- redaction claims, 2
\* a phone number of either form or a dotted quad starts at position s of t
NumericShapeAt(t, s) ==
    \/ ShapeAt(t, s, <<"D", "D", "D", "-", "D", "D", "D", "-", "D", "D", "D", "D">>)
    \/ ShapeAt(t, s, <<"D", "D", "D", "-", "D", "D", "D", "D">>)
    \/ DottedQuadAt(t, s)

\* C30: what redact_sensitive_data returns contains no DDD-DDD-DDDD, no
\* DDD-DDDD and no dotted quad of groups of one to three digits, whatever
\* the text it was given; replacing one occurrence leaves no other behind.
C30_NoNumericShapeLeft ==
    (call.fn = "redact_sensitive_data" /\ result # NoResult)
    => \A s \in 1..Len(result.text) : ~NumericShapeAt(result.text, s)

\* C30 witness: a 7-digit number that starts where the 10-digit number
\* before it ends ("123-456-7890-123-4567"); each is replaced.
C30_Witness ==
    /\ call.fn = "redact_sensitive_data"
    /\ call.text = <<"1", "2", "3", "-", "4", "5", "6", "-", "7", "8", "9", "0">> \o <<"-", "1", "2", "3", "-", "4", "5", "6", "7">>
    /\ \E s \in 1..Len(call.text) : NumericShapeAt(call.text, s)
    /\ result # NoResult
    /\ result.text = TokRedacted \o <<"-">> \o TokRedacted

\* two addresses written without a gap ("192.168.1.1192.168.1.1"): the first
\* match takes "192.168.1.119", the rest "2.168.1.1" is an address again
C30_AdjacentAddresses ==
    /\ call.fn = "redact_sensitive_data"
    /\ call.text = <<"1", "9", "2", ".", "1", "6", "8", ".", "1", ".", "1">> \o <<"1", "9", "2", ".", "1", "6", "8", ".", "1", ".", "1">>
    /\ result # NoResult
    /\ result.text = TokIp \o TokIp

\* ----------------------------------------------- redaction claims, 3
\* lines 120-127: the text the email rule is given, after the two phone
\* rules and the address rule
BeforeEmailRule(text) ==
    ReSub("ip", TokIp,
      ReSub("phone7", TokRedacted,
        ReSub("phone10", TokRedacted, text)))
\* the matches of the email pattern that re.sub replaces in t, scanning from
\* position s: <<first, last>> of each
RECURSIVE EmailReplaced(_, _)
EmailReplaced(t, s) ==
    IF s > Len(t) THEN {}
    ELSE LET m == EmailMatchLen(t, s)
         IN  IF m > 0 THEN {<<s, s + m - 1>>} \cup EmailReplaced(t, s + m)
             ELSE EmailReplaced(t, s + 1)
HasEmailShape(t) ==
    \E s \in 1..Len(t) : \E e \in s..Len(t) : EmailShapeAt(t, s, e)
\* the same shape with the domain class of the pattern: letters, digits,
\* dots and hyphens, no underscore
EmailShapeOfPatternAt(t, s, e) ==
    /\ BoundaryBefore(t, s) /\ BoundaryBefore(t, e + 1)
    /\ \E a \in (s + 1)..e : \E d \in (a + 2)..(e - 2) :
         /\ t[a] = "@" /\ t[d] = "."
         /\ AllIn(t, s, a - 1, LocalChars)
         /\ AllIn(t, a + 1, d - 1, DomainChars)
         /\ AllIn(t, d + 1, e, Letters)

\* C31 (the email rule), as claimed: what the rule replaces by
\* [EMAIL_REDACTED] is a token local-part @ domain . TLD between word
\* boundaries whose TLD is two or more letters, never a token whose last
\* label holds a character that is no letter; and no such token is left in
\* the text returned.
C31_EmailExactly ==
    (call.fn = "redact_sensitive_data" /\ result # NoResult) =>
        LET pre == BeforeEmailRule(call.text)
        IN  /\ \A m \in EmailReplaced(pre, 1) : EmailShapeAt(pre, m[1], m[2])
            /\ ~HasEmailShape(result.text)

\* C31, the part the code keeps: in a text without a vertical bar, what is
\* replaced is such a token, and no such token with a domain of letters,
\* digits, dots and hyphens is left.
C31_WithoutBar ==
    (call.fn = "redact_sensitive_data" /\ result # NoResult
       /\ \A j \in DOMAIN call.text : call.text[j] # "|") =>
        LET pre == BeforeEmailRule(call.text)
        IN  /\ \A m \in EmailReplaced(pre, 1) : EmailShapeAt(pre, m[1], m[2])
            /\ \A s \in 1..Len(result.text) : \A e \in s..Len(result.text) :
                 ~EmailShapeOfPatternAt(result.text, s, e)

\* "u@h.c|m", whose last label holds a bar, is replaced
C31_BarInLastLabel ==
    /\ call.fn = "redact_sensitive_data"
    /\ call.text = <<"u", "@", "h", ".", "c", "|", "m">>
    /\ result # NoResult
    /\ result.text = TokEmail

\* "a@b_c.co", whose domain holds an underscore, a word character, comes
\* back as it is
C31_UnderscoreInDomain ==
    /\ call.fn = "redact_sensitive_data"
    /\ call.text = <<"a", "@", "b", "_", "c", ".", "c", "o">>
    /\ HasEmailShape(call.text)
    /\ result # NoResult
    /\ result.text = call.text

\* ------------------------------------------------- ingestion claims, 2
HasCorsHeader(r) == \E h \in r.headers : h[1] = "Access-Control-Allow-Origin"

\* C32 (CORS headers), as claimed: every response the ingestion handler
\* returns, whatever its status code, carries an
\* Access-Control-Allow-Origin header.
C32_EveryResponseHasCors == Answered => HasCorsHeader(http)

\* C32, the part the code keeps: the responses 202, 413 and 503 carry the
\* header with the value "*", and they are the only ones that carry it;
\* every response names its content type.
C32_CorsByStatus ==
    Answered =>
        /\ HasCorsHeader(http) <=> http.statusCode \in {202, 413, 503}
        /\ HasCorsHeader(http) => <<"Access-Control-Allow-Origin", "*">> \in http.headers
        /\ <<"Content-Type", "application/json">> \in http.headers

\* a 400 without the header: a JSON request without a tenant_id
C32_BadRequestWithout ==
    /\ Answered /\ http.statusCode = 400 /\ ~HasCorsHeader(http)
    /\ http.body = [error |-> "Missing tenant_id or text"]

\* a 500 without the header: send_message raised an exception that is no
\* ClientError
C32_InternalErrorWithout ==
    /\ Answered /\ http.statusCode = 500 /\ ~HasCorsHeader(http)
    /\ sent = "Exception"

\* the accepted request of the test carries the header
C32_AcceptedWith ==
    /\ Answered /\ http.statusCode = 202 /\ HasCorsHeader(http)
    /\ Len(queue) = 1

====
